---- MODULE Spec2Model ----
(***************************************************************************)
(* Verification model of claude-code-notify.                               *)
(*                                                                         *)
(* Broker  : server/src/index.ts  (HTTP submission endpoint, WebSocket     *)
(*           connection set, idle shutdown, graceful shutdown).            *)
(* Client  : extension/src/background.ts (reconnection with exponential    *)
(*           backoff, keepalive, recent notifications, notification gate). *)
(*                                                                         *)
(* Every handler of the single-threaded event loop is one atomic action.   *)
(***************************************************************************)
EXTENDS Integers, Sequences, FiniteSets, TLC

(***************************************************************************)
(* Bounds of the model                                                     *)
(***************************************************************************)
MaxConns == 2
MaxPosts == 1
MaxPongs == 1
MaxChannels == 2
MaxSchedules == 6
MaxArrivals == 11        \* events recorded by the client in one run
MaxGateArrivals == 2     \* events recorded in a run of GateSpec
MaxHandlers == 2         \* message handlers suspended at an await
MaxUserActions == 11     \* popup requests, clicks and settings changes
MaxGateUserActions == 2  \* of them in the specifications that bound them further
MaxHooks == 2            \* hook runs in flight
MaxClock == 2            \* milliseconds the clock behind Date.now() advances

(***************************************************************************)
(* Program constants                                                       *)
(***************************************************************************)
NORMAL_CLOSURE == 1000
RECONNECT_INITIAL_DELAY == 1000
RECONNECT_MAX_DELAY == 30000
MAX_RECENT_NOTIFICATIONS == 10

Conn == 1..MaxConns

\* notification.type values accepted by the endpoint
VALID_TYPES == {"permission_prompt", "idle_prompt", "stop"}

\* marks a property that is missing from a JSON object (undefined)
Absent == "<absent>"

\* what `new Date().toISOString()` yields whenever the broker evaluates it
NowISO == "<now>"

\* request bodies a local caller may post: text that is not JSON ("garbage"),
\* the JSON value null, and JSON objects with any combination of the three
\* properties
BodyTypes == VALID_TYPES \cup {"bogus", Absent}
BodyMessages == {"done", Absent}
BodyTimestamps == {"T0", "", Absent}
Notifications == [type : BodyTypes, message : BodyMessages, timestamp : BodyTimestamps]
NoObject == [type |-> Absent, message |-> Absent, timestamp |-> Absent]
Bodies == [json : {"garbage", "null"}, value : {NoObject}]
          \cup [json : {"object"}, value : Notifications]

\* frames a listener may send to the broker
ClientFrames == {"ping", "other", "garbage"}

(***************************************************************************)
(* State                                                                   *)
(***************************************************************************)
VARIABLES
    procState,          \* "starting" | "listening" | "closing" | "exited" | "crashed"
    clients,            \* the Set<WebSocket>, in insertion order
    connState,          \* per connection: "none" "accepted" "open" "closing" "closed"
    sent,               \* per connection: the frames the broker wrote to it
    closeCode,          \* per connection: code of the close frame the broker sent, 0 = none
    idleShutdownTimer,  \* TRUE iff the handle is non-null
    pendingTimers,      \* number of idle timeouts pending in the event loop
    isShuttingDown,
    pidFile,            \* "absent" | "self" | "other" (the pid of another, running broker)
    effects,            \* external effects of shutdown(), in program order
    request,            \* the body of the last POST /notify handled
    response,           \* the last HTTP response written
    posts,              \* number of POST /notify requests handled
    sendFailed,         \* the socket whose send() threw in the last POST, 0 = none
    shutdownBy,         \* what began the shutdown: "none" | "signal" | "idle"
    retriggered,        \* a shutdown trigger arrived while shutting down
    portHolder,         \* who else holds the port: "none" | "other" (a running broker)
    errored,            \* the connections whose 'error' handler has run
    \* ---- client (extension background script) ----
    clientPc,           \* "loading": loadState() pending | "running"
    ws,                 \* the current WebSocket, 0 = null
    chan,               \* readyState per WebSocket object; "free" = not allocated
    reconnectDelay,
    reconnectTimeout,   \* "null" | "pending" | "fired" (the handle is never reset)
    timerDelay,         \* the delay the reconnect timeout was armed with
    keepaliveInterval,  \* TRUE iff the interval handle is non-null
    pinged,             \* the socket the last keepalive tick sent a ping on, 0 = none
    isConnected,
    recentNotifications,
    unreadCount,
    lastNotificationType,
    badge,              \* [text, color] set by setBadge
    stored,             \* what saveState() last wrote to storage
    loadResult,         \* loadState(): whether its storage.local.get was served, and with what
    schedules,          \* scheduleReconnect() calls since the delay was last reset
    settings,           \* what getSettings() yields: defaults merged with storage
    handlers,           \* async handlers suspended at `await getSettings()`
    rendered,           \* notifications handed to browser.notifications.create
    storageDown,        \* storage.local rejects every get and set
    \* the hook runs (notify.sh and the launcher it calls)
    hookPc,             \* per hook run: the command it is at
    waited,             \* per hook run: the loop counter `waited` / WAITED
    lockDir,            \* the hook run that made "${LOCK_FILE}.d", NoHook if absent
    healthy,            \* GET /health is answered
    stalePidFile,       \* PID_FILE names a process that does not exist
    spawned,            \* per hook run: it started a broker process
    launcherStatus,     \* per hook run: exit status of the launcher, -1 while it runs
    hookStatus,         \* per hook run: exit status of notify.sh, -1 while it runs
    \* the transport between the broker and the client
    delivered,          \* per socket: frames of sent[] the client's socket has taken
    now,                \* Date.now()
    shown,              \* per notification id: the kind on display, "none" if none
    dismissTimers,      \* the notification ids an auto-close timeout is pending for
    arrivals,           \* events recorded so far: the clock behind receivedAt
    userActions,        \* popup requests, clicks and settings changes so far
    lastMessage         \* data.type of the last frame ws.onmessage parsed

vars == <<procState, clients, connState, sent, closeCode, idleShutdownTimer,
          pendingTimers, isShuttingDown, pidFile, effects, request, response, posts,
          sendFailed, shutdownBy, retriggered, portHolder, errored, clientPc, ws, chan, reconnectDelay,
          reconnectTimeout, timerDelay, keepaliveInterval, pinged, isConnected,
          recentNotifications, unreadCount, lastNotificationType, badge, stored,
          schedules, settings, handlers, rendered, arrivals, userActions, lastMessage,
          now, shown, dismissTimers, storageDown,
          hookPc, waited, lockDir, healthy, stalePidFile, spawned, launcherStatus,
          hookStatus, delivered, loadResult>>

clientVars == <<clientPc, ws, chan, reconnectDelay, reconnectTimeout, timerDelay,
                keepaliveInterval, pinged, isConnected, recentNotifications, unreadCount,
                lastNotificationType, badge, stored, schedules, settings, handlers,
                rendered, arrivals, userActions, lastMessage, now, shown, dismissTimers,
                storageDown, loadResult>>

\* the client's variables its connection handlers do not touch
eventVars == <<settings, handlers, rendered, arrivals, userActions, lastMessage,
               storageDown>>

\* the transport between the broker's sockets and the client's
linkVars == <<delivered>>

\* the hook runs and what they share
launcherVars == <<hookPc, waited, lockDir, healthy, stalePidFile, spawned,
                  launcherStatus, hookStatus>>

Hook == 1..MaxHooks
\* the value of lockDir when the directory does not exist
NoHook == 0

\* the clock and the notifications on display
noticeVars == <<now, shown, dismissTimers>>

\* notification ids: `claude-${Date.now()}`
Clock == 0..MaxClock

\* the client's variables its message and request handlers do not touch
connVars == <<clientPc, ws, chan, reconnectDelay, reconnectTimeout, timerDelay,
              keepaliveInterval, pinged, isConnected, schedules, loadResult>>

brokerVars == <<procState, clients, connState, sent, closeCode, idleShutdownTimer,
                pendingTimers, isShuttingDown, pidFile, effects, request, response,
                posts, sendFailed, shutdownBy, retriggered, portHolder, errored>>

Channel == 1..MaxChannels
Handler == 1..MaxHandlers

\* DEFAULT_SETTINGS, the three switches of the notification gate
DEFAULT_SETTINGS == [notificationsEnabled |-> TRUE, notifyOnStop |-> TRUE,
                     notifyOnIdle |-> TRUE]
SettingsValues == [notificationsEnabled : BOOLEAN, notifyOnStop : BOOLEAN,
                   notifyOnIdle : BOOLEAN]

\* NOTIFICATION_CONFIG
NOTIFICATION_CONFIG ==
    [permission_prompt |-> [title |-> "Claude needs permission", requireInteraction |-> TRUE],
     idle_prompt |-> [title |-> "Claude is waiting", requireInteraction |-> FALSE],
     stop |-> [title |-> "Claude finished", requireInteraction |-> FALSE]]

\* the fallback of `data.message || '...'`
DefaultMessage == "Claude Code requires your attention"

\* testData of the popup's testNotification request
TestData == [type |-> "permission_prompt",
             message |-> "This is a test notification from Claude Code Notifier",
             timestamp |-> Absent]

NoData == [type |-> Absent, message |-> Absent, timestamp |-> Absent]

\* BADGE_COLORS
BADGE_COLORS == [connected |-> "#22c55e", disconnected |-> "#6b7280", error |-> "#ef4444",
                 permission_prompt |-> "#ef4444", idle_prompt |-> "#f97316",
                 stop |-> "#22c55e"]

(***************************************************************************)
(* Helpers                                                                 *)
(***************************************************************************)
Range(s) == {s[i] : i \in 1..Len(s)}

\* Set.prototype.add
SetAdd(s, x) == IF x \in Range(s) THEN s ELSE Append(s, x)

\* clients.clear() in place of clients.delete(ws)
SetDeleteAll(s, x) == <<>>

\* a delete that removes the oldest element instead of x
SetDeleteOldest(s, x) == IF s = <<>> THEN s ELSE Tail(s)

\* Set.prototype.delete
SetDelete(s, x) == SelectSeq(s, LAMBDA y : y # x)

NoRequest == [json |-> "none", value |-> NoObject]
\* a response: status and the properties of its JSON body (-1 = not in the body)
NoResponse == [status |-> 0, error |-> "", clientsNotified |-> -1, connectedClients |-> -1]
ErrorResponse(msg) ==
    [status |-> 400, error |-> msg, clientsNotified |-> -1, connectedClients |-> -1]
NotifyResponse(n) ==
    [status |-> 200, error |-> "", clientsNotified |-> n, connectedClients |-> -1]
HealthRequest == [json |-> "health", value |-> NoObject]
HealthResponse(n) ==
    [status |-> 200, error |-> "", clientsNotified |-> -1, connectedClients |-> n]

WelcomeMessage == [type |-> "connected",
                   message |-> "Connected to Claude Code notification server",
                   timestamp |-> NowISO]
PongMessage == [type |-> "pong", message |-> Absent, timestamp |-> NowISO]

\* a send() that writes the frame to every OPEN socket
WsSendToAll(snt, st, c, frame) ==
    [d \in Conn |-> IF st[d] = "open" THEN Append(snt[d], frame) ELSE snt[d]]

\* ws.send(): the frame is written only while the socket is OPEN
WsSend(snt, st, c, frame) ==
    IF st[c] = "open" THEN [snt EXCEPT ![c] = Append(@, frame)] ELSE snt

(***************************************************************************)
(* Initial state: the module has been loaded, listen() has been called     *)
(***************************************************************************)
\* storage.local of a fresh install
NothingStored == [present |-> FALSE, isConnected |-> FALSE, recentNotifications |-> <<>>,
                  unreadCount |-> 0, lastNotificationType |-> "null"]

\* storage.local as an earlier run of the background script left it: one stop
\* event recorded and unread, the channel closed
StoredEarlier ==
    [present |-> TRUE, isConnected |-> FALSE,
     recentNotifications |-> <<[type |-> "stop", message |-> "done",
                                timestamp |-> NowISO, receivedAt |-> 0]>>,
     unreadCount |-> 1, lastNotificationType |-> "stop"]

\* the state after the module has been loaded, with the port free or held by
\* a running broker whose PID file is in place
InitFrom(holder, pid, saved) ==
    /\ portHolder = holder
    /\ pidFile = pid
    /\ errored = {}
    /\ procState = "starting"
    /\ clients = <<>>
    /\ connState = [c \in Conn |-> "none"]
    /\ sent = [c \in Conn |-> <<>>]
    /\ closeCode = [c \in Conn |-> 0]
    /\ idleShutdownTimer = FALSE
    /\ pendingTimers = 0
    /\ isShuttingDown = FALSE
    /\ effects = <<>>
    /\ request = NoRequest
    /\ response = NoResponse
    /\ posts = 0
    /\ sendFailed = 0
    /\ shutdownBy = "none"
    /\ retriggered = FALSE
    /\ clientPc = "loading"
    /\ ws = 0
    /\ chan = [i \in Channel |-> "free"]
    /\ reconnectDelay = RECONNECT_INITIAL_DELAY
    /\ reconnectTimeout = "null"
    /\ timerDelay = 0
    /\ keepaliveInterval = FALSE
    /\ pinged = 0
    /\ isConnected = FALSE
    /\ recentNotifications = <<>>
    /\ unreadCount = 0
    /\ lastNotificationType = "null"
    /\ badge = [text |-> "", color |-> ""]
    /\ stored = saved
    /\ loadResult = [read |-> FALSE, state |-> NothingStored]
    /\ schedules = 0
    /\ settings = DEFAULT_SETTINGS
    /\ handlers = [h \in Handler |-> [pc |-> "free", data |-> NoData]]
    /\ rendered = <<>>
    /\ storageDown = FALSE
    /\ hookPc = [l \in Hook |-> "check"]
    /\ waited = [l \in Hook |-> 0]
    /\ lockDir = NoHook
    /\ healthy = FALSE
    /\ stalePidFile = FALSE
    /\ spawned = [l \in Hook |-> FALSE]
    /\ launcherStatus = [l \in Hook |-> -1]
    /\ hookStatus = [l \in Hook |-> -1]
    /\ delivered = [c \in Conn |-> 0]
    /\ now = 0
    /\ shown = [id \in Clock |-> "none"]
    /\ dismissTimers = {}
    /\ arrivals = 0
    /\ userActions = 0
    /\ lastMessage = "none"

InitWith(holder, pid) == InitFrom(holder, pid, NothingStored)

\* the background script starts on a fresh install or after an earlier run
RestoreInit == InitFrom("none", "absent", NothingStored)
               \/ InitFrom("none", "absent", StoredEarlier)

\* the broker is started with the port free and no PID file
Init == InitWith("none", "absent")

\* the broker is started with the port free, or while another broker runs
BindInit == InitWith("none", "absent") \/ InitWith("other", "other")

(***************************************************************************)
(* Idle-shutdown timer                                                     *)
(***************************************************************************)
\* clearIdleShutdown() that leaves the timeout armed
clearIdleShutdownNoop(timer, pending) == <<timer, pending>>

\* clearIdleShutdown(): yields the new <<handle, pending timeouts>>
clearIdleShutdown(timer, pending) ==
    IF timer THEN <<FALSE, pending - 1>> ELSE <<timer, pending>>

\* scheduleIdleShutdown() that never arms the timeout
scheduleIdleShutdownNever(timer, pending, shuttingDown) == <<timer, pending>>

\* scheduleIdleShutdown() that arms a timeout even when one is armed
scheduleIdleShutdownAgain(timer, pending, shuttingDown) ==
    IF shuttingDown THEN <<timer, pending>> ELSE <<TRUE, pending + 1>>

\* scheduleIdleShutdown(): arms one timeout unless one is armed or the broker
\* is shutting down
scheduleIdleShutdown(timer, pending, shuttingDown) ==
    IF timer \/ shuttingDown THEN <<timer, pending>> ELSE <<TRUE, pending + 1>>

\* `if (clients.size === 0) scheduleIdleShutdown()`
ScheduleIfEmpty(cl, timer, pending, shuttingDown) ==
    IF Len(cl) = 0 THEN scheduleIdleShutdown(timer, pending, shuttingDown)
    ELSE <<timer, pending>>

(***************************************************************************)
(* Graceful shutdown                                                       *)
(***************************************************************************)
\* client.close(1000, ...) on one socket: an OPEN socket sends its close frame
\* and becomes CLOSING; in any other state nothing is sent
CloseState(st, c) == IF st[c] = "open" THEN "closing" ELSE st[c]
CloseCodeOf(st, cc, c) == IF st[c] = "open" THEN NORMAL_CLOSURE ELSE cc[c]

\* the close() calls of `clients.forEach(client => client.close(1000, ...))`
CloseCalls(cl) == [i \in 1..Len(cl) |-> [op |-> "close", conn |-> cl[i]]]

\* a cleanupPidFile() that leaves the file in place
cleanupPidFileNoop == pidFile' = pidFile

\* cleanupPidFile()
cleanupPidFile == pidFile' = "absent"

\* the effects in the order "close the connections, then remove the PID file"
ShutdownEffectsCloseFirst(cl) ==
    CloseCalls(cl) \o <<[op |-> "cleanupPidFile", conn |-> 0]>>
        \o <<[op |-> "httpServer.close", conn |-> 0]>>

\* the effects of shutdown() past its guard, in program order
ShutdownEffects(cl) ==
    <<[op |-> "cleanupPidFile", conn |-> 0]>> \o CloseCalls(cl)
        \o <<[op |-> "httpServer.close", conn |-> 0]>>

\* shutdown() past its `if (isShuttingDown) return` guard
shutdownBody ==
    /\ isShuttingDown' = TRUE
    /\ cleanupPidFile
    /\ connState' = [c \in Conn |->
           IF c \in Range(clients) THEN CloseState(connState, c) ELSE connState[c]]
    /\ closeCode' = [c \in Conn |->
           IF c \in Range(clients) THEN CloseCodeOf(connState, closeCode, c)
           ELSE closeCode[c]]
    /\ effects' = effects \o ShutdownEffects(clients)
    /\ procState' = "closing"

\* shutdown() without its re-entrancy guard
shutdownUnguarded == shutdownBody

\* shutdown()
shutdown ==
    IF isShuttingDown
    THEN UNCHANGED <<isShuttingDown, pidFile, connState, closeCode, effects, procState>>
    ELSE shutdownBody

(***************************************************************************)
(* Event submission endpoint                                               *)
(***************************************************************************)
\* Stamp with the guard dropped: every submission is stamped
StampAlways(n) == [n EXCEPT !.timestamp = NowISO]

\* `if (!notification.timestamp) notification.timestamp = new Date().toISOString()`
\* (a missing property and the empty string are both falsy)
Stamp(n) ==
    IF n.timestamp = Absent \/ n.timestamp = ""
    THEN [n EXCEPT !.timestamp = NowISO] ELSE n

\* the clients.forEach loop of the POST handler, from position i on: yields the
\* frames written, the number of sockets written to and whether a send() threw.
\* st[c] = "broken" stands for a socket whose readyState is OPEN and whose
\* send() throws: the exception leaves the loop.
RECURSIVE BroadcastFrom(_, _, _, _, _, _)
BroadcastFrom(cl, i, st, snt, frame, count) ==
    IF i > Len(cl) THEN [sent |-> snt, sentCount |-> count, threw |-> FALSE]
    ELSE IF st[cl[i]] = "open"
         THEN BroadcastFrom(cl, i + 1, st, [snt EXCEPT ![cl[i]] = Append(@, frame)],
                            frame, count + 1)
         ELSE IF st[cl[i]] = "broken"
         THEN [sent |-> snt, sentCount |-> count, threw |-> TRUE]
         ELSE BroadcastFrom(cl, i + 1, st, snt, frame, count)

\* the loop with sentCount++ moved out of the readyState test
BroadcastCountAll(cl, st, snt, frame) ==
    [sent |-> BroadcastFrom(cl, 1, st, snt, frame, 0).sent, sentCount |-> Len(cl),
     threw |-> BroadcastFrom(cl, 1, st, snt, frame, 0).threw]

\* the loop with the readyState test dropped: every registered socket is written
BroadcastToAll(cl, st, snt, frame) ==
    BroadcastFrom(cl, 1, [c \in Conn |-> "open"], snt, frame, 0)

Broadcast(cl, st, snt, frame) == BroadcastFrom(cl, 1, st, snt, frame, 0)

\* the handler with the type validation after the broadcast
HandleNotifyBroadcastFirst(body, cl, st, snt) ==
    IF body.json # "object"
    THEN [response |-> ErrorResponse("Invalid JSON payload"), sent |-> snt]
    ELSE LET notification == Stamp(body.value)
             b == Broadcast(cl, st, snt, notification)
         IN IF notification.type \notin VALID_TYPES
            THEN [response |-> ErrorResponse("Invalid notification type"), sent |-> b.sent]
            ELSE [response |-> NotifyResponse(b.sentCount), sent |-> b.sent]

\* the body of req.on('end'): yields the response and the frames written
HandleNotify(body, cl, st, snt) ==
    IF body.json = "garbage"
    THEN \* JSON.parse throws
         [response |-> ErrorResponse("Invalid JSON payload"), sent |-> snt]
    ELSE IF body.json = "null"
    THEN \* reading a property of null throws a TypeError inside the try
         [response |-> ErrorResponse("Invalid JSON payload"), sent |-> snt]
    ELSE LET notification == Stamp(body.value) IN
         IF notification.type \notin VALID_TYPES
         THEN [response |-> ErrorResponse("Invalid notification type"), sent |-> snt]
         ELSE LET b == Broadcast(cl, st, snt, notification) IN
              IF b.threw
              THEN \* the exception of send() is caught by the handler's catch
                   [response |-> ErrorResponse("Invalid JSON payload"), sent |-> b.sent]
              ELSE [response |-> NotifyResponse(b.sentCount), sent |-> b.sent]

(***************************************************************************)
(* Broker actions: one per event-loop callback                             *)
(***************************************************************************)
timerVars == <<idleShutdownTimer, pendingTimers>>
\* what only the bind outcome and the 'error' handler concern
envVars == <<portHolder, errored>>
shutdownVars == <<isShuttingDown, pidFile, effects, shutdownBy, retriggered>>
httpVars == <<request, response, posts, sendFailed>>

Alive == procState \in {"listening", "closing"}

\* number of pong frames written so far, over all connections
RECURSIVE SumPongs(_)
SumPongs(C) ==
    IF C = {} THEN 0
    ELSE LET c == CHOOSE x \in C : TRUE
         IN Len(SelectSeq(sent[c], LAMBDA f : f.type = "pong")) + SumPongs(C \ {c})
PongsSent == SumPongs(Conn)

\* httpServer.listen callback
Listen ==
    /\ UNCHANGED <<clientVars, envVars, launcherVars, linkVars>>
    /\ procState = "starting"
    /\ portHolder = "none"
    /\ procState' = "listening"
    /\ pidFile' = "self"
    /\ LET t == ScheduleIfEmpty(clients, idleShutdownTimer, pendingTimers, isShuttingDown)
       IN /\ idleShutdownTimer' = t[1]
          /\ pendingTimers' = t[2]
    /\ UNCHANGED <<clients, connState, sent, closeCode, isShuttingDown, effects,
                   shutdownBy, retriggered, httpVars>>

\* a bind failure that is caught and answered with cleanupPidFile()
ListenErrorCleansUp ==
    /\ UNCHANGED <<clientVars, envVars, launcherVars, linkVars>>
    /\ procState = "starting"
    /\ portHolder = "other"
    /\ procState' = "crashed"
    /\ cleanupPidFile
    /\ UNCHANGED <<clients, connState, sent, closeCode, timerVars, isShuttingDown,
                   effects, shutdownBy, retriggered, httpVars>>

\* listen() fails because the port is held: the server emits 'error', for which
\* the program registers no handler, and the process dies on the uncaught error
\* before the listen callback or any other handler has run
ListenError ==
    /\ UNCHANGED <<clientVars, envVars, launcherVars, linkVars>>
    /\ procState = "starting"
    /\ portHolder = "other"
    /\ procState' = "crashed"
    /\ UNCHANGED <<clients, connState, sent, closeCode, timerVars, shutdownVars,
                   httpVars>>

\* the listening socket accepts a TCP connection; its upgrade request has not
\* been processed yet
TcpAccept(c) ==
    /\ UNCHANGED <<clientVars, envVars, launcherVars, linkVars>>
    /\ procState = "listening"
    /\ connState[c] = "none"
    /\ \A d \in Conn : d < c => connState[d] # "none"   \* ids are handed out in order
    /\ connState' = [connState EXCEPT ![c] = "accepted"]
    /\ UNCHANGED <<procState, clients, sent, closeCode, timerVars, shutdownVars, httpVars>>

\* an accepted socket ends before its handshake completes
TcpDrop(c) ==
    /\ UNCHANGED <<clientVars, envVars, launcherVars, linkVars>>
    /\ Alive
    /\ connState[c] = "accepted"
    /\ connState' = [connState EXCEPT ![c] = "closed"]
    /\ UNCHANGED <<procState, clients, sent, closeCode, timerVars, shutdownVars, httpVars>>

\* wss.on('connection')
WsConnection(c) ==
    /\ UNCHANGED <<clientVars, envVars, launcherVars, linkVars>>
    /\ Alive
    /\ connState[c] = "accepted"
    /\ LET st == [connState EXCEPT ![c] = "open"]
           t == clearIdleShutdown(idleShutdownTimer, pendingTimers)
       IN /\ connState' = st
          /\ clients' = SetAdd(clients, c)
          /\ idleShutdownTimer' = t[1]
          /\ pendingTimers' = t[2]
          /\ sent' = WsSend(sent, st, c, WelcomeMessage)
    /\ UNCHANGED <<procState, closeCode, shutdownVars, httpVars>>

\* a message handler that answers every frame with a pong
WsMessagePongAlways(c, frame) ==
    /\ UNCHANGED <<clientVars, envVars, launcherVars, linkVars>>
    /\ Alive
    /\ connState[c] = "open"
    /\ PongsSent < MaxPongs
    /\ sent' = WsSend(sent, connState, c, PongMessage)
    /\ UNCHANGED <<procState, clients, connState, closeCode, timerVars, shutdownVars,
                   httpVars>>

\* ws.on('message')
WsMessage(c, frame) ==
    /\ UNCHANGED <<clientVars, envVars, launcherVars, linkVars>>
    /\ Alive
    /\ connState[c] = "open"
    /\ frame = "ping" => PongsSent < MaxPongs
    /\ sent' = IF frame = "ping" THEN WsSend(sent, connState, c, PongMessage) ELSE sent
    /\ UNCHANGED <<procState, clients, connState, closeCode, timerVars, shutdownVars,
                   httpVars>>

\* the peer's close frame arrives: the socket is CLOSING until the transport ends
RemoteClose(c) ==
    /\ UNCHANGED <<clientVars, envVars, launcherVars, linkVars>>
    /\ Alive
    /\ connState[c] = "open"
    /\ connState' = [connState EXCEPT ![c] = "closing"]
    /\ UNCHANGED <<procState, clients, sent, closeCode, timerVars, shutdownVars, httpVars>>

\* ws.on('error'): the socket is torn down, its 'close' event follows
WsError(c) ==
    /\ UNCHANGED <<clientVars, portHolder, launcherVars, linkVars>>
    /\ errored' = errored \cup {c}
    /\ Alive
    /\ connState[c] = "open"
    /\ connState' = [connState EXCEPT ![c] = "closing"]
    /\ clients' = SetDelete(clients, c)
    /\ LET t == ScheduleIfEmpty(clients', idleShutdownTimer, pendingTimers, isShuttingDown)
       IN /\ idleShutdownTimer' = t[1]
          /\ pendingTimers' = t[2]
    /\ UNCHANGED <<procState, sent, closeCode, shutdownVars, httpVars>>

\* ws.on('close'): the transport has ended
WsClose(c) ==
    /\ UNCHANGED <<clientVars, envVars, launcherVars, linkVars>>
    /\ Alive
    /\ connState[c] \in {"open", "closing"}
    /\ connState' = [connState EXCEPT ![c] = "closed"]
    /\ clients' = SetDelete(clients, c)
    /\ LET t == ScheduleIfEmpty(clients', idleShutdownTimer, pendingTimers, isShuttingDown)
       IN /\ idleShutdownTimer' = t[1]
          /\ pendingTimers' = t[2]
    /\ UNCHANGED <<procState, sent, closeCode, shutdownVars, httpVars>>

\* the readyState the POST handler reads, with `bad` the socket whose send()
\* throws (0 = none)
WithFault(st, bad) == IF bad = 0 THEN st ELSE [st EXCEPT ![bad] = "broken"]

\* POST /notify, req.on('end'); send() throws on socket `bad`, 0 = on none
PostNotify(body, bad) ==
    /\ UNCHANGED <<clientVars, envVars, launcherVars, linkVars>>
    /\ Alive
    /\ posts < MaxPosts
    /\ bad # 0 => /\ bad \in Range(clients) /\ connState[bad] = "open"
                  /\ body.json = "object" /\ body.value.type \in VALID_TYPES
    /\ posts' = posts + 1
    /\ request' = body
    /\ sendFailed' = bad
    /\ LET r == HandleNotify(body, clients, WithFault(connState, bad), sent)
       IN /\ response' = r.response
          /\ sent' = r.sent
    /\ UNCHANGED <<procState, clients, connState, closeCode, timerVars, shutdownVars>>

\* GET /health that also cancels the idle timeout
GetHealthClearsTimer ==
    /\ UNCHANGED <<clientVars, envVars, launcherVars, linkVars>>
    /\ Alive
    /\ request' = HealthRequest
    /\ response' = HealthResponse(Len(clients))
    /\ idleShutdownTimer' = FALSE
    /\ pendingTimers' = 0
    /\ UNCHANGED <<procState, clients, connState, sent, closeCode, shutdownVars, posts,
                   sendFailed>>

\* GET /health
GetHealth ==
    /\ UNCHANGED <<clientVars, envVars, launcherVars, linkVars>>
    /\ Alive
    /\ request' = HealthRequest
    /\ response' = HealthResponse(Len(clients))
    /\ UNCHANGED <<procState, clients, connState, sent, closeCode, timerVars,
                   shutdownVars, posts, sendFailed>>

\* process.on('SIGINT' | 'SIGTERM', shutdown)
Signal ==
    /\ UNCHANGED <<clientVars, envVars, launcherVars, linkVars>>
    /\ Alive
    /\ retriggered' = (retriggered \/ isShuttingDown)
    /\ shutdownBy' = IF isShuttingDown THEN shutdownBy ELSE "signal"
    /\ shutdown
    /\ UNCHANGED <<clients, sent, timerVars, httpVars>>

\* the idle timeout fires
IdleTimerFire ==
    /\ UNCHANGED <<clientVars, envVars, launcherVars, linkVars>>
    /\ Alive
    /\ pendingTimers > 0
    /\ idleShutdownTimer' = FALSE
    /\ pendingTimers' = pendingTimers - 1
    /\ IF Len(clients) = 0 /\ ~isShuttingDown
       THEN shutdown /\ shutdownBy' = "idle"
       ELSE UNCHANGED <<isShuttingDown, pidFile, connState, closeCode, effects,
                        procState, shutdownBy>>
    /\ UNCHANGED <<clients, sent, retriggered, httpVars>>

\* httpServer.close callback: every socket of the server has ended
ServerClosed ==
    /\ UNCHANGED <<clientVars, envVars, launcherVars, linkVars>>
    /\ procState = "closing"
    /\ \A c \in Conn : connState[c] \in {"none", "closed"}
    /\ procState' = "exited"
    /\ UNCHANGED <<clients, connState, sent, closeCode, timerVars, shutdownVars, httpVars>>

(***************************************************************************)
(* Client: connection and reconnection (extension background script)       *)
(***************************************************************************)
Min(a, b) == IF a < b THEN a ELSE b

\* the backoff step without its ceiling
NextDelayUncapped(d) == d * 2

\* `Math.min(reconnectDelay * 2, RECONNECT_MAX_DELAY)`
NextDelay(d) == Min(d * 2, RECONNECT_MAX_DELAY)

\* `unreadCount > 9 ? '9+' : unreadCount.toString()`
CountText(n) == IF n > 9 THEN "9+" ELSE <<"1", "2", "3", "4", "5", "6", "7", "8", "9">>[n]

\* the badge updateNotificationBadge() sets
NotificationBadge(unread, lastType) ==
    IF unread = 0 THEN [text |-> "", color |-> BADGE_COLORS.connected]
    ELSE [text |-> CountText(unread),
          color |-> IF lastType # "null" THEN BADGE_COLORS[lastType]
                    ELSE BADGE_COLORS.permission_prompt]

\* the badge updateBadge(status) sets
StatusBadge(status, unread, lastType) ==
    IF unread > 0 /\ status = "connected" THEN NotificationBadge(unread, lastType)
    ELSE [text |-> [connected |-> "", disconnected |-> "!", error |-> "X"][status],
          color |-> BADGE_COLORS[status]]

\* storage.local.get returns a saved state
Readable == stored.present /\ ~storageDown

\* what storage holds after saveState() was called with state x: the write is
\* not awaited, and a rejected one changes nothing
Written(x) == IF storageDown THEN stored ELSE x

\* the object saveState() hands to storage.local.set
SavedState(connected) ==
    [present |-> TRUE, isConnected |-> connected,
     recentNotifications |-> recentNotifications, unreadCount |-> unreadCount,
     lastNotificationType |-> lastNotificationType]

\* the lowest WebSocket object not in use
FreeChannel(ch) == CHOOSE i \in Channel : ch[i] = "free" /\ \A j \in Channel : ch[j] = "free" => i <= j

\* a WebSocket that is CLOSED and no longer referenced by `ws` is garbage
Release(w, ch) == IF w # 0 /\ ch[w] = "closed" THEN [ch EXCEPT ![w] = "free"] ELSE ch

\* a connect() without its early return
ConnectIsNoopNever(w, ch) == FALSE

\* connect() returns at once while the current socket is CONNECTING or OPEN
ConnectIsNoop(w, ch) == w # 0 /\ ch[w] \in {"connecting", "open"}

\* connect(): yields the new `ws` and the sockets' states.  `new WebSocket` of
\* the constant, well-formed WS_URL does not throw, so the catch is not taken.
connect(w, ch) ==
    IF ConnectIsNoop(w, ch) THEN [ws |-> w, chan |-> ch]
    ELSE LET ch1 == Release(w, ch)
             n == FreeChannel(ch1)
         IN [ws |-> n, chan |-> [ch1 EXCEPT ![n] = "connecting"]]

\* connect() can run within the model's bound on WebSocket objects
CanConnect(w, ch) == ConnectIsNoop(w, ch) \/ \E i \in Channel : Release(w, ch)[i] = "free"

\* ws.close() that leaves the socket as it is
WsCloseCallNoop(w, ch) == ch

\* ws.close(): a CONNECTING or OPEN socket becomes CLOSING
WsCloseCall(w, ch) ==
    IF w # 0 /\ ch[w] \in {"connecting", "open"} THEN [ch EXCEPT ![w] = "closing"] ELSE ch

\* scheduleReconnect() that arms no timeout
scheduleReconnectNoTimer ==
    /\ UNCHANGED <<reconnectTimeout, timerDelay>>
    /\ reconnectDelay' = Min(reconnectDelay * 2, RECONNECT_MAX_DELAY)
    /\ schedules' = schedules + 1

\* scheduleReconnect()
scheduleReconnect ==
    /\ reconnectTimeout' = "pending"
    /\ timerDelay' = reconnectDelay
    /\ reconnectDelay' = NextDelay(reconnectDelay)
    /\ schedules' = schedules + 1

\* the socket's state once its close event has been dispatched
Closed(i) == [chan EXCEPT ![i] = IF ws = i THEN "closed" ELSE "free"]

\* loadState().then(() => connect())
\* what loadState()'s storage.local.get yields when it is served now
GetResult == [stored EXCEPT !.present = Readable]

\* loadState() from the point where its storage.local.get has resolved with
\* `result`, then connect()
loadState(result) ==
    /\ clientPc = "loading"
    /\ CanConnect(ws, chan)
    /\ clientPc' = "running"
    /\ recentNotifications' = IF result.present THEN result.recentNotifications
                              ELSE recentNotifications
    /\ unreadCount' = IF result.present THEN result.unreadCount ELSE unreadCount
    /\ lastNotificationType' =
           IF result.present /\ result.lastNotificationType # "null"
           THEN result.lastNotificationType ELSE lastNotificationType
    /\ badge' = IF unreadCount' > 0
                THEN NotificationBadge(unreadCount', lastNotificationType') ELSE badge
    /\ LET r == connect(ws, chan) IN ws' = r.ws /\ chan' = r.chan
    /\ UNCHANGED <<reconnectDelay, reconnectTimeout, timerDelay, keepaliveInterval,
                   isConnected, stored, schedules>>

\* the background script starts: loadState().then(() => connect()), with no
\* other handler between the read of the storage and its resolution
ClientStart ==
    /\ UNCHANGED <<brokerVars, launcherVars, linkVars>>
    /\ UNCHANGED <<eventVars, noticeVars, pinged, loadResult>>
    /\ ~loadResult.read
    /\ loadState(GetResult)

\* the storage serves the get of loadState(); its promise is not yet resolved
LoadRead ==
    /\ UNCHANGED <<brokerVars, launcherVars, linkVars>>
    /\ UNCHANGED <<eventVars, noticeVars, pinged>>
    /\ clientPc = "loading"
    /\ ~loadResult.read
    /\ loadResult' = [read |-> TRUE, state |-> GetResult]
    /\ UNCHANGED <<clientPc, ws, chan, reconnectDelay, reconnectTimeout, timerDelay,
                   keepaliveInterval, isConnected, schedules, recentNotifications,
                   unreadCount, lastNotificationType, badge, stored>>

\* the promise of the get resolves: loadState() assigns what was read
LoadResolve ==
    /\ UNCHANGED <<brokerVars, launcherVars, linkVars>>
    /\ UNCHANGED <<eventVars, noticeVars, pinged, loadResult>>
    /\ loadResult.read
    /\ loadState(loadResult.state)

\* the service worker's 'activate' event: connect()
Activate ==
    /\ UNCHANGED <<brokerVars, launcherVars, linkVars>>
    /\ UNCHANGED <<eventVars, noticeVars, pinged, loadResult>>
    /\ CanConnect(ws, chan)
    /\ LET r == connect(ws, chan) IN ws' = r.ws /\ chan' = r.chan
    /\ UNCHANGED <<clientPc, reconnectDelay, reconnectTimeout, timerDelay,
                   keepaliveInterval, isConnected, recentNotifications, unreadCount,
                   lastNotificationType, badge, stored, schedules>>

\* ws.onopen
ChanOpen(i) ==
    /\ UNCHANGED <<brokerVars, launcherVars, linkVars>>
    /\ UNCHANGED <<eventVars, noticeVars, pinged, loadResult>>
    /\ chan[i] = "connecting"
    /\ chan' = [chan EXCEPT ![i] = "open"]
    /\ isConnected' = TRUE
    /\ reconnectDelay' = RECONNECT_INITIAL_DELAY
    /\ schedules' = 0
    /\ badge' = StatusBadge("connected", unreadCount, lastNotificationType)
    /\ keepaliveInterval' = TRUE
    /\ stored' = Written(SavedState(TRUE))
    /\ UNCHANGED <<clientPc, ws, reconnectTimeout, timerDelay, recentNotifications,
                   unreadCount, lastNotificationType>>

\* the peer's close frame arrives on an OPEN socket: readyState becomes CLOSING,
\* no handler runs until the transport has ended
ChanClosing(i) ==
    /\ UNCHANGED <<brokerVars, launcherVars, linkVars>>
    /\ UNCHANGED <<eventVars, noticeVars, pinged, loadResult>>
    /\ chan[i] = "open"
    /\ chan' = [chan EXCEPT ![i] = "closing"]
    /\ UNCHANGED <<clientPc, ws, reconnectDelay, reconnectTimeout, timerDelay,
                   keepaliveInterval, isConnected, recentNotifications, unreadCount,
                   lastNotificationType, badge, stored, schedules>>

\* ws.onclose, after a clean close
ChanClose(i) ==
    /\ UNCHANGED <<brokerVars, launcherVars, linkVars>>
    /\ UNCHANGED <<eventVars, noticeVars, pinged, loadResult>>
    /\ chan[i] \in {"open", "closing"}
    /\ schedules < MaxSchedules
    /\ chan' = Closed(i)
    /\ isConnected' = FALSE
    /\ badge' = StatusBadge("disconnected", unreadCount, lastNotificationType)
    /\ keepaliveInterval' = FALSE
    /\ stored' = Written(SavedState(FALSE))
    /\ scheduleReconnect
    /\ UNCHANGED <<clientPc, ws, recentNotifications, unreadCount, lastNotificationType>>

\* the connection failed: ws.onerror, then ws.onclose in the same task
ChanFail(i) ==
    /\ UNCHANGED <<brokerVars, launcherVars, linkVars>>
    /\ UNCHANGED <<eventVars, noticeVars, pinged, loadResult>>
    /\ chan[i] \in {"connecting", "open", "closing"}
    /\ schedules < MaxSchedules
    /\ chan' = Closed(i)
    /\ isConnected' = FALSE
    /\ badge' = StatusBadge("disconnected", unreadCount, lastNotificationType)
    /\ keepaliveInterval' = FALSE
    /\ stored' = Written(SavedState(FALSE))
    /\ scheduleReconnect
    /\ UNCHANGED <<clientPc, ws, recentNotifications, unreadCount, lastNotificationType>>

\* the reconnect timeout fires: connect()
ReconnectTimerFire ==
    /\ UNCHANGED <<brokerVars, launcherVars, linkVars>>
    /\ UNCHANGED <<eventVars, noticeVars, pinged, loadResult>>
    /\ reconnectTimeout = "pending"
    /\ CanConnect(ws, chan)
    /\ reconnectTimeout' = "fired"
    /\ LET r == connect(ws, chan) IN ws' = r.ws /\ chan' = r.chan
    /\ UNCHANGED <<clientPc, reconnectDelay, timerDelay, keepaliveInterval, isConnected,
                   recentNotifications, unreadCount, lastNotificationType, badge,
                   stored, schedules>>

\* runtime message 'reconnect' from the popup
ManualReconnect ==
    /\ UNCHANGED <<brokerVars, launcherVars, linkVars>>
    /\ UNCHANGED <<eventVars, noticeVars, pinged, loadResult>>
    /\ CanConnect(ws, WsCloseCall(ws, chan))
    /\ reconnectDelay' = RECONNECT_INITIAL_DELAY
    /\ schedules' = 0
    /\ LET r == connect(ws, WsCloseCall(ws, chan)) IN ws' = r.ws /\ chan' = r.chan
    /\ UNCHANGED <<clientPc, reconnectTimeout, timerDelay, keepaliveInterval,
                   isConnected, recentNotifications, unreadCount, lastNotificationType,
                   badge, stored>>

\* the keepalive interval fires: a ping is sent if the current socket is OPEN
KeepaliveTick ==
    /\ UNCHANGED <<brokerVars, launcherVars, linkVars>>
    /\ UNCHANGED <<eventVars, noticeVars, loadResult>>
    /\ keepaliveInterval
    /\ pinged' = IF ws # 0 /\ chan[ws] = "open" THEN ws ELSE 0
    /\ UNCHANGED <<clientPc, ws, chan, reconnectDelay, reconnectTimeout, timerDelay,
                   keepaliveInterval, isConnected, recentNotifications, unreadCount,
                   lastNotificationType, badge, stored, schedules>>

(***************************************************************************)
(* Client: incoming events, recent notifications, notification gate        *)
(***************************************************************************)
\* the frames the broker writes to a listener: the welcome, the pong and what
\* the POST handler broadcasts for some request body
BrokerFrames ==
    {WelcomeMessage, PongMessage} \cup
    UNION {Range(HandleNotify(b, <<1>>, [c \in Conn |-> "open"],
                              [c \in Conn |-> <<>>]).sent[1]) : b \in Bodies}

\* a test that never recognises the welcome and the pong
IsHousekeepingNever(type) == FALSE

\* `data.type === 'connected' || data.type === 'pong'`
IsHousekeeping(type) == type \in {"connected", "pong"}

\* the overflow step left out: the list keeps growing
PopNever(list) == list

\* `if (recentNotifications.length > MAX_RECENT_NOTIFICATIONS) recentNotifications.pop()`
PopOverflow(list) ==
    IF Len(list) > MAX_RECENT_NOTIFICATIONS THEN SubSeq(list, 1, Len(list) - 1) ELSE list

\* the StoredNotification addRecentNotification() builds
StoredNotification(data) ==
    [type |-> data.type, message |-> data.message, timestamp |-> data.timestamp,
     receivedAt |-> arrivals + 1]

\* recentNotifications after unshift(stored) and the overflow step
Unshift(data, list) == PopOverflow(<<StoredNotification(data)>> \o list)

\* the object saveState() hands to storage.local.set, for the values given
StateToSave(connected, list, unread, lastType) ==
    [present |-> TRUE, isConnected |-> connected, recentNotifications |-> list,
     unreadCount |-> unread, lastNotificationType |-> lastType]

\* getSettings() that does not fall back to the defaults
getSettingsNoFallback == settings

\* getSettings(): the stored settings, DEFAULT_SETTINGS when the read fails
getSettings == IF storageDown THEN DEFAULT_SETTINGS ELSE settings

\* addRecentNotification(data)
addRecentNotification(data) ==
    IF IsHousekeeping(data.type)
    THEN UNCHANGED <<recentNotifications, unreadCount, lastNotificationType, badge,
                     stored, arrivals>>
    ELSE /\ recentNotifications' = Unshift(data, recentNotifications)
         /\ unreadCount' = unreadCount + 1
         /\ lastNotificationType' = data.type
         /\ badge' = NotificationBadge(unreadCount + 1, data.type)
         /\ stored' = Written(StateToSave(isConnected, Unshift(data, recentNotifications),
                                  unreadCount + 1, data.type))
         /\ arrivals' = arrivals + 1

\* clearUnreadCount() that also empties the list
clearUnreadCountAndList(list) ==
    /\ recentNotifications' = <<>>
    /\ unreadCount' = 0
    /\ lastNotificationType' = "null"
    /\ badge' = NotificationBadge(0, "null")
    /\ stored' = Written(StateToSave(isConnected, <<>>, 0, "null"))

\* clearUnreadCount(), run while recentNotifications holds `list`
clearUnreadCount(list) ==
    /\ recentNotifications' = list
    /\ unreadCount' = 0
    /\ lastNotificationType' = "null"
    /\ badge' = NotificationBadge(0, "null")
    /\ stored' = Written(StateToSave(isConnected, list, 0, "null"))

\* the lowest handler slot not in use
FreeHandler == CHOOSE h \in Handler :
                   handlers[h].pc = "free" /\ \A g \in Handler : handlers[g].pc = "free" => h <= g

Suspend(pc, data) == [handlers EXCEPT ![FreeHandler] = [pc |-> pc, data |-> data]]
Resume(h, pc) == [handlers EXCEPT ![h] = [pc |-> pc, data |-> IF pc = "free" THEN NoData ELSE @.data]]

\* showNotification() up to its `await getSettings()`: where the call is
\* suspended, or "free" when it has returned
ShowStart(data) ==
    IF IsHousekeeping(data.type) THEN "free"
    ELSE IF data.type \notin DOMAIN NOTIFICATION_CONFIG THEN "free"
    ELSE "show"

\* showNotification() with the per-kind tests left out
SuppressedNever(data, s) == FALSE

\* the per-kind tests of showNotification()
Suppressed(data, s) ==
    \/ data.type = "stop" /\ ~s.notifyOnStop
    \/ data.type = "idle_prompt" /\ ~s.notifyOnIdle

\* what showNotification() hands to browser.notifications.create
OsNotification(data) ==
    [type |-> data.type,
     title |-> NOTIFICATION_CONFIG[data.type].title,
     message |-> IF data.message = Absent \/ data.message = "" THEN DefaultMessage
                 ELSE data.message,
     requireInteraction |-> NOTIFICATION_CONFIG[data.type].requireInteraction]

\* ws.onmessage of socket i, up to its first await
onmessage(i, data) ==
    /\ lastMessage' = data.type
    /\ IF IsHousekeeping(data.type)
       THEN UNCHANGED <<recentNotifications, unreadCount, lastNotificationType, badge,
                        stored, arrivals, handlers>>
       ELSE /\ arrivals < MaxArrivals
            /\ \E h \in Handler : handlers[h].pc = "free"
            /\ addRecentNotification(data)
            /\ handlers' = Suspend("gate", data)
    /\ UNCHANGED <<connVars, storageDown, noticeVars, settings, rendered, userActions>>

\* a frame written by some broker is dispatched on socket i
Receive(i, data) ==
    /\ UNCHANGED <<brokerVars, launcherVars, linkVars>>
    /\ chan[i] = "open"
    /\ onmessage(i, data)

\* a socket that dispatches message events while it is CLOSING
DispatchesWhileClosing(readyState) == readyState \in {"open", "closing"}

\* the browser dispatches a message event only while readyState is OPEN; a
\* frame that arrives on a CLOSING socket is dropped
Dispatches(readyState) == readyState = "open"

\* the next frame the broker wrote to connection i arrives at the client's
\* socket i: ws.onmessage runs, or the frame is dropped
Deliver(i) ==
    /\ UNCHANGED <<brokerVars, launcherVars>>
    /\ i \in Channel \cap Conn
    /\ chan[i] \in {"open", "closing"}
    /\ delivered[i] < Len(sent[i])
    /\ delivered' = [delivered EXCEPT ![i] = @ + 1]
    /\ IF Dispatches(chan[i])
       THEN onmessage(i, sent[i][delivered[i] + 1])
       ELSE UNCHANGED clientVars

\* ws.onmessage resumes with the settings: the global toggle, then the call of
\* showNotification()
Gate(h) ==
    /\ UNCHANGED <<brokerVars, launcherVars, linkVars>>
    /\ handlers[h].pc = "gate"
    /\ handlers' = Resume(h, IF ~getSettings.notificationsEnabled THEN "free"
                             ELSE ShowStart(handlers[h].data))
    /\ UNCHANGED <<connVars, storageDown, noticeVars, recentNotifications, unreadCount, lastNotificationType,
                   badge, stored, settings, rendered, arrivals, userActions, lastMessage>>

\* showNotification() resumes with the settings: the per-kind tests, then the
\* notification is created
Show(h) ==
    /\ UNCHANGED <<brokerVars, launcherVars, linkVars>>
    /\ handlers[h].pc = "show"
    /\ Suppressed(handlers[h].data, getSettings) \/ now < MaxClock
    /\ rendered' = IF Suppressed(handlers[h].data, getSettings) THEN rendered
                   ELSE Append(rendered, OsNotification(handlers[h].data))
    \* notifications.create(`claude-${Date.now()}`) replaces a notification that
    \* has the same id; setTimeout(clear, 5000) unless requireInteraction
    /\ shown' = IF Suppressed(handlers[h].data, getSettings) THEN shown
                ELSE [shown EXCEPT ![now] = handlers[h].data.type]
    /\ dismissTimers' =
           IF Suppressed(handlers[h].data, getSettings)
              \/ NOTIFICATION_CONFIG[handlers[h].data.type].requireInteraction
           THEN dismissTimers ELSE dismissTimers \cup {now}
    /\ handlers' = Resume(h, "free")
    /\ UNCHANGED <<connVars, storageDown, now, recentNotifications, unreadCount, lastNotificationType,
                   badge, stored, settings, arrivals, userActions, lastMessage>>

\* runtime message 'testNotification' from the popup
TestNotification ==
    /\ UNCHANGED <<brokerVars, launcherVars, linkVars>>
    /\ userActions < MaxUserActions
    /\ arrivals < MaxArrivals
    /\ \E h \in Handler : handlers[h].pc = "free"
    /\ userActions' = userActions + 1
    /\ addRecentNotification(TestData)
    /\ handlers' = IF ShowStart(TestData) = "free" THEN handlers
                   ELSE Suspend(ShowStart(TestData), TestData)
    /\ UNCHANGED <<connVars, storageDown, noticeVars, settings, rendered, lastMessage>>

\* runtime message 'markAsRead' from the popup
MarkAsRead ==
    /\ UNCHANGED <<brokerVars, launcherVars, linkVars>>
    /\ userActions < MaxUserActions
    /\ userActions' = userActions + 1
    /\ clearUnreadCount(recentNotifications)
    /\ UNCHANGED <<connVars, storageDown, noticeVars, settings, handlers, rendered, arrivals, lastMessage>>

\* notifications.onClicked: the user clicks a notification that was created
NotificationClick ==
    /\ UNCHANGED <<brokerVars, launcherVars, linkVars>>
    /\ Len(rendered) > 0
    /\ userActions < MaxUserActions
    /\ userActions' = userActions + 1
    /\ \E id \in Clock :
          /\ shown[id] # "none"
          /\ shown' = [shown EXCEPT ![id] = "none"]     \* notifications.clear(id)
    /\ clearUnreadCount(recentNotifications)
    /\ UNCHANGED <<connVars, storageDown, now, dismissTimers, settings, handlers, rendered, arrivals, lastMessage>>

\* runtime message 'clearNotifications' from the popup
ClearNotifications ==
    /\ UNCHANGED <<brokerVars, launcherVars, linkVars>>
    /\ userActions < MaxUserActions
    /\ userActions' = userActions + 1
    /\ clearUnreadCount(<<>>)
    /\ UNCHANGED <<connVars, storageDown, noticeVars, settings, handlers, rendered, arrivals, lastMessage>>

\* recentNotifications.splice(index, 1), index counted from 0
Splice(list, index) ==
    SubSeq(list, 1, index) \o SubSeq(list, index + 2, Len(list))

\* a removeNotification that marks everything as read
RemoveNotificationResets(index) ==
    /\ UNCHANGED <<brokerVars, launcherVars, linkVars>>
    /\ userActions < MaxUserActions
    /\ userActions' = userActions + 1
    /\ IF index >= 0 /\ index < Len(recentNotifications)
       THEN LET list == Splice(recentNotifications, index)
                unread == 0
                lastType == IF unread = 0 THEN "null" ELSE lastNotificationType
            IN /\ recentNotifications' = list
               /\ unreadCount' = unread
               /\ lastNotificationType' = lastType
               /\ badge' = NotificationBadge(unread, lastNotificationType)
               /\ stored' = Written(StateToSave(isConnected, list, unread, lastType))
       ELSE UNCHANGED <<recentNotifications, unreadCount, lastNotificationType, badge,
                        stored>>
    /\ UNCHANGED <<connVars, storageDown, noticeVars, settings, handlers, rendered, arrivals, lastMessage>>

\* runtime message 'removeNotification' from the popup
RemoveNotification(index) ==
    /\ UNCHANGED <<brokerVars, launcherVars, linkVars>>
    /\ userActions < MaxUserActions
    /\ userActions' = userActions + 1
    /\ IF index >= 0 /\ index < Len(recentNotifications)
       THEN LET list == Splice(recentNotifications, index)
                unread == IF unreadCount > 0 THEN unreadCount - 1 ELSE unreadCount
                lastType == IF unread = 0 THEN "null" ELSE lastNotificationType
            IN /\ recentNotifications' = list
               /\ unreadCount' = unread
               /\ lastNotificationType' = lastType
               /\ badge' = NotificationBadge(unread, lastNotificationType)
               /\ stored' = Written(StateToSave(isConnected, list, unread, lastType))
       ELSE UNCHANGED <<recentNotifications, unreadCount, lastNotificationType, badge,
                        stored>>
    /\ UNCHANGED <<connVars, storageDown, noticeVars, settings, handlers, rendered, arrivals, lastMessage>>

\* the popup writes new settings to storage
SettingsChange(s) ==
    /\ UNCHANGED <<brokerVars, launcherVars, linkVars>>
    /\ userActions < MaxUserActions
    /\ s # settings
    /\ ~storageDown
    /\ userActions' = userActions + 1
    /\ settings' = s
    /\ UNCHANGED <<connVars, storageDown, noticeVars, recentNotifications, unreadCount, lastNotificationType,
                   badge, stored, handlers, rendered, arrivals, lastMessage>>

\* storage.local starts to fail, or works again
StorageFault ==
    /\ UNCHANGED <<brokerVars, launcherVars, linkVars>>
    /\ storageDown' = ~storageDown
    /\ UNCHANGED <<connVars, noticeVars, settings, handlers, rendered, arrivals,
                   userActions, lastMessage, recentNotifications, unreadCount,
                   lastNotificationType, badge, stored>>

\* time passes
Tick ==
    /\ UNCHANGED <<brokerVars, launcherVars, linkVars>>
    /\ now < MaxClock
    /\ now' = now + 1
    /\ UNCHANGED <<connVars, eventVars, shown, dismissTimers, recentNotifications,
                   unreadCount, lastNotificationType, badge, stored>>

\* the auto-close timeout of notification id fires, 5000 ms after it was armed:
\* notifications.clear(id)
DismissTimerFire(id) ==
    /\ UNCHANGED <<brokerVars, launcherVars, linkVars>>
    /\ id \in dismissTimers
    /\ now > id
    /\ dismissTimers' = dismissTimers \ {id}
    /\ shown' = [shown EXCEPT ![id] = "none"]
    /\ UNCHANGED <<connVars, eventVars, now, recentNotifications, unreadCount,
                   lastNotificationType, badge, stored>>

(***************************************************************************)
(* The hook: notify.sh and the launcher                                    *)
(***************************************************************************)
\* `local timeout=10` of acquire_lock
LOCK_TIMEOUT == 10
MAX_WAIT == 5

hookFrame == <<clientVars, brokerVars, linkVars>>

\* a mkdir that succeeds whether or not the directory exists
MkdirAlways(dir) == TRUE

\* mkdir "${LOCK_FILE}.d": succeeds when the directory does not exist
Mkdir(dir) == dir = NoHook

\* the trap on EXIT that acquire_lock installed: rmdir "${LOCK_FILE}.d"
ExitTrap(l) == IF lockDir = l THEN NoHook ELSE lockDir

\* the launcher exits with status rc; notify.sh goes on to `read`
LauncherExit(l, rc) ==
    /\ launcherStatus' = [launcherStatus EXCEPT ![l] = rc]
    /\ lockDir' = ExitTrap(l)
    /\ hookPc' = [hookPc EXCEPT ![l] = "read"]

\* line 19: if check_health; then exit 0
CheckHealth(l) ==
    /\ UNCHANGED hookFrame
    /\ hookPc[l] = "check"
    /\ IF healthy
       THEN LauncherExit(l, 0)
       ELSE /\ hookPc' = [hookPc EXCEPT ![l] = "acquire"]
            /\ UNCHANGED <<launcherStatus, lockDir>>
    /\ UNCHANGED <<waited, healthy, stalePidFile, spawned, hookStatus>>

\* one round of the loop of acquire_lock: mkdir, or sleep 0.5 and count
AcquireLock(l) ==
    /\ UNCHANGED hookFrame
    /\ hookPc[l] = "acquire"
    /\ IF Mkdir(lockDir)
       THEN /\ lockDir' = l
            /\ hookPc' = [hookPc EXCEPT ![l] = "recheck"]
            /\ UNCHANGED waited
       ELSE /\ waited' = [waited EXCEPT ![l] = @ + 1]
            /\ hookPc' = [hookPc EXCEPT ![l] =
                              IF waited[l] + 1 < LOCK_TIMEOUT THEN "acquire" ELSE "nolock"]
            /\ UNCHANGED lockDir
    /\ UNCHANGED <<healthy, stalePidFile, spawned, launcherStatus, hookStatus>>

\* the lock was not acquired: sleep 2, then the health decides the status
NoLock(l) ==
    /\ UNCHANGED hookFrame
    /\ hookPc[l] = "nolock"
    /\ LauncherExit(l, IF healthy THEN 0 ELSE 1)
    /\ UNCHANGED <<waited, healthy, stalePidFile, spawned, hookStatus>>

\* line 59: the health check under the lock
Recheck(l) ==
    /\ UNCHANGED hookFrame
    /\ hookPc[l] = "recheck"
    /\ IF healthy
       THEN LauncherExit(l, 0)
       ELSE /\ hookPc' = [hookPc EXCEPT ![l] = "stale"]
            /\ UNCHANGED <<launcherStatus, lockDir>>
    /\ UNCHANGED <<waited, healthy, stalePidFile, spawned, hookStatus>>

\* lines 64-70: rm -f "$PID_FILE" when its process does not exist
RemoveStalePid(l) ==
    /\ UNCHANGED hookFrame
    /\ hookPc[l] = "stale"
    /\ stalePidFile' = FALSE
    /\ hookPc' = [hookPc EXCEPT ![l] = "start"]
    /\ UNCHANGED <<waited, lockDir, healthy, spawned, launcherStatus, hookStatus>>

\* lines 73-77: cd "$SERVER_DIR" || exit 1; nohup node dist/index.js &; WAITED=0
StartServer(l) ==
    /\ UNCHANGED hookFrame
    /\ hookPc[l] = "start"
    /\ \E cdOk \in BOOLEAN :
          IF cdOk
          THEN /\ spawned' = [spawned EXCEPT ![l] = TRUE]
               /\ waited' = [waited EXCEPT ![l] = 0]
               /\ hookPc' = [hookPc EXCEPT ![l] = "wait"]
               /\ UNCHANGED <<launcherStatus, lockDir>>
          ELSE /\ LauncherExit(l, 1)
               /\ UNCHANGED <<spawned, waited>>
    /\ UNCHANGED <<healthy, stalePidFile, hookStatus>>

\* one round of the loop of lines 78-84, and line 87 after the last one
WaitForServer(l) ==
    /\ UNCHANGED hookFrame
    /\ hookPc[l] = "wait"
    /\ waited' = [waited EXCEPT ![l] = @ + 1]
    /\ IF healthy \/ waited[l] + 1 >= MAX_WAIT
       THEN LauncherExit(l, 0)
       ELSE UNCHANGED <<hookPc, launcherStatus, lockDir>>
    /\ UNCHANGED <<healthy, stalePidFile, spawned, hookStatus>>

\* notify.sh line 13: read -r EVENT_JSON, from the caller's pipe
ReadEvent(l) ==
    /\ UNCHANGED hookFrame
    /\ hookPc[l] = "read"
    /\ hookPc' = [hookPc EXCEPT ![l] = "post"]
    /\ UNCHANGED <<waited, lockDir, healthy, stalePidFile, spawned, launcherStatus,
                   hookStatus>>

\* an exit status of notify.sh that is the launcher's
HookExitStatusOfLauncher(rc) == rc

\* notify.sh line 70: exit 0
HookExitStatus(rc) == 0

\* notify.sh lines 62-70: curl --connect-timeout 2 --max-time 5 ... || true; exit
PostEvent(l) ==
    /\ UNCHANGED hookFrame
    /\ hookPc[l] = "post"
    /\ hookPc' = [hookPc EXCEPT ![l] = "exit"]
    /\ hookStatus' = [hookStatus EXCEPT ![l] = HookExitStatus(launcherStatus[l])]
    /\ UNCHANGED <<waited, lockDir, healthy, stalePidFile, spawned, launcherStatus>>

\* a broker process that a launcher started answers the health check
BrokerUp ==
    /\ UNCHANGED hookFrame
    /\ ~healthy
    /\ \E l \in Hook : spawned[l]
    /\ healthy' = TRUE
    /\ UNCHANGED <<hookPc, waited, lockDir, stalePidFile, spawned, launcherStatus,
                   hookStatus>>

\* the broker goes away: an orderly exit removes its PID file, a crash leaves it
BrokerDown ==
    /\ UNCHANGED hookFrame
    /\ healthy
    /\ healthy' = FALSE
    /\ \E crash \in BOOLEAN : stalePidFile' = crash
    /\ UNCHANGED <<hookPc, waited, lockDir, spawned, launcherStatus, hookStatus>>

HookStep(l) ==
    \/ CheckHealth(l)
    \/ AcquireLock(l)
    \/ NoLock(l)
    \/ Recheck(l)
    \/ RemoveStalePid(l)
    \/ StartServer(l)
    \/ WaitForServer(l)
    \/ ReadEvent(l)
    \/ PostEvent(l)

(***************************************************************************)
(* Specifications                                                          *)
(***************************************************************************)
\* The submission endpoint and the connection set it reads.  Signals, pings and
\* the idle timer are left to LifecycleSpec: PostNotify reads clients and
\* connState only, and every connState a shutdown produces is also produced by
\* RemoteClose.
NotifyNext ==
    \/ Listen
    \/ \E c \in Conn : TcpAccept(c)
    \/ \E c \in Conn : TcpDrop(c)
    \/ \E c \in Conn : WsConnection(c)
    \/ \E c \in Conn : RemoteClose(c)
    \/ \E c \in Conn : WsError(c)
    \/ \E c \in Conn : WsClose(c)
    \/ \E b \in Bodies, bad \in Conn \cup {0} : PostNotify(b, bad)
    \/ GetHealth

NotifySpec == Init /\ [][NotifyNext]_vars

\* Connection lifecycle, keepalive, idle timer and shutdown.  PostNotify is left
\* to NotifySpec: it changes sent, request, response and posts only, which no
\* action of this specification reads.
LifecycleNext ==
    \/ Listen
    \/ \E c \in Conn : TcpAccept(c)
    \/ \E c \in Conn : TcpDrop(c)
    \/ \E c \in Conn : WsConnection(c)
    \/ \E c \in Conn, f \in ClientFrames : WsMessage(c, f)
    \/ \E c \in Conn : RemoteClose(c)
    \/ \E c \in Conn : WsError(c)
    \/ \E c \in Conn : WsClose(c)
    \/ Signal
    \/ IdleTimerFire
    \/ ServerClosed

LifecycleSpec == Init /\ [][LifecycleNext]_vars

\* The broker's life from either start: with the port free it runs as in
\* LifecycleSpec, with the port held by a running broker its bind fails.
BindNext ==
    \/ LifecycleNext
    \/ ListenError

BindSpec == BindInit /\ [][BindNext]_vars

\* the transport of a CLOSING socket ends (ws destroys the socket when the
\* closing handshake does not complete within its close timeout)
TransportEnds(c) == connState[c] = "closing" /\ WsClose(c)

\* an accepted socket either completes its handshake or ends
HandshakeEnds(c) == WsConnection(c) \/ TcpDrop(c)

\* LifecycleSpec with the progress the event loop and the transport guarantee:
\* an armed timeout fires, a closing transport ends, a pending handshake ends,
\* the close callback runs.  Nothing forces a peer to close, fail or ping.
FairLifecycleSpec ==
    /\ LifecycleSpec
    /\ WF_vars(IdleTimerFire)
    /\ WF_vars(ServerClosed)
    /\ \A c \in Conn : WF_vars(TransportEnds(c))
    /\ \A c \in Conn : WF_vars(HandshakeEnds(c))

\* The client's connection state machine, on its own: the broker is the
\* environment that lets a socket open, close or fail.
ClientNext ==
    \/ ClientStart
    \/ Activate
    \/ \E i \in Channel : ChanOpen(i)
    \/ \E i \in Channel : ChanClosing(i)
    \/ \E i \in Channel : ChanClose(i)
    \/ \E i \in Channel : ChanFail(i)
    \/ ReconnectTimerFire
    \/ ManualReconnect
    \/ KeepaliveTick

ClientSpec == Init /\ [][ClientNext]_vars

\* a pending handshake ends: the socket opens or fails
ChanHandshakeEnds(i) == chan[i] = "connecting" /\ (ChanOpen(i) \/ ChanFail(i))

\* the transport of a CLOSING socket ends and its close event is dispatched
ChanTransportEnds(i) == chan[i] = "closing" /\ ChanClose(i)

\* ClientSpec with the progress the runtime and the transport guarantee while
\* the extension is alive: an armed reconnect timeout fires, a pending handshake
\* ends, a closing transport ends.  Nothing forces a handshake to succeed.
FairClientSpec ==
    /\ ClientSpec
    /\ WF_vars(ClientStart)
    /\ WF_vars(ReconnectTimerFire)
    /\ \A i \in Channel : WF_vars(ChanHandshakeEnds(i))
    /\ \A i \in Channel : WF_vars(ChanTransportEnds(i))

\* the broadcast frames that carry a message and the broker's timestamp: one
\* for each type the broker lets through
StampedEvents == {f \in BrokerFrames : /\ ~IsHousekeeping(f.type)
                                        /\ f.timestamp = NowISO
                                        /\ f.message # Absent}

\* The recent list of a connected client: events of one kind from the broker,
\* test notifications, removals and clears.  The settings stay at their
\* defaults and the channel stays open; see GateSpec and ClientSpec.
RecentNext ==
    /\ \/ ClientStart
       \/ \E i \in Channel : ChanOpen(i)
       \/ \E i \in Channel, f \in {g \in StampedEvents : g.type = "stop"} : Receive(i, f)
       \/ \E h \in Handler : Gate(h)
       \/ \E h \in Handler : Show(h)
       \/ TestNotification
       \/ \E x \in -1..MAX_RECENT_NOTIFICATIONS :
             x <= Len(recentNotifications) /\ RemoveNotification(x)
       \/ ClearNotifications
    /\ userActions' <= MaxGateUserActions

RecentSpec == Init /\ [][RecentNext]_vars

\* The notification gate of a connected client: every frame the broker can
\* write, test notifications, acknowledgements and settings changes, for the
\* first MaxGateArrivals events of the run.
GateNext ==
    /\ \/ ClientStart
       \/ \E i \in Channel : ChanOpen(i)
       \/ \E i \in Channel, f \in {WelcomeMessage, PongMessage} \cup StampedEvents :
             Receive(i, f)
       \/ \E h \in Handler : Gate(h)
       \/ \E h \in Handler : Show(h)
       \/ TestNotification
       \/ MarkAsRead
       \/ NotificationClick
       \/ \E s \in SettingsValues : SettingsChange(s)
    /\ arrivals' <= MaxGateArrivals
    /\ userActions' <= MaxGateUserActions

GateSpec == Init /\ [][GateNext]_vars

\* The connection state machine (without the activate event and the keepalive
\* ticks, which touch neither the badge nor the status) together with incoming
\* events and the acknowledgements: what the badge and getStatus show depends
\* on both.
SessionNext ==
    /\ \/ ClientStart
       \/ \E i \in Channel : ChanOpen(i)
       \/ \E i \in Channel : ChanClosing(i)
       \/ \E i \in Channel : ChanClose(i)
       \/ \E i \in Channel : ChanFail(i)
       \/ ReconnectTimerFire
       \/ ManualReconnect
       \/ \E i \in Channel, f \in {g \in StampedEvents : g.type = "idle_prompt"} :
             Receive(i, f)
       \/ \E h \in Handler : Gate(h)
       \/ \E h \in Handler : Show(h)
       \/ TestNotification
       \/ MarkAsRead
       \/ NotificationClick
    /\ arrivals' <= MaxGateArrivals
    /\ userActions' <= MaxGateUserActions

SessionSpec == Init /\ [][SessionNext]_vars

\* The notifications on display: events of every kind from the broker, the
\* clock, the auto-close timeouts and the user's clicks.
NoticeNext ==
    /\ \/ ClientStart
       \/ \E i \in Channel : ChanOpen(i)
       \/ \E i \in Channel, f \in StampedEvents : Receive(i, f)
       \/ \E h \in Handler : Gate(h)
       \/ \E h \in Handler : Show(h)
       \/ Tick
       \/ \E id \in Clock : DismissTimerFire(id)
       \/ NotificationClick
    /\ arrivals' <= MaxGateArrivals
    /\ userActions' <= MaxGateUserActions

\* time passes and a pending timeout fires
NoticeSpec ==
    /\ Init /\ [][NoticeNext]_vars
    /\ WF_vars(Tick)
    /\ \A id \in Clock : WF_vars(DismissTimerFire(id))

\* GateSpec with a storage that fails and recovers at any moment
FaultNext ==
    \/ GateNext
    \/ StorageFault

FaultSpec == Init /\ [][FaultNext]_vars

\* Concurrent hook runs, and a broker that comes up and goes away
LauncherNext ==
    \/ \E l \in Hook : CheckHealth(l)
    \/ \E l \in Hook : AcquireLock(l)
    \/ \E l \in Hook : NoLock(l)
    \/ \E l \in Hook : Recheck(l)
    \/ \E l \in Hook : RemoveStalePid(l)
    \/ \E l \in Hook : StartServer(l)
    \/ \E l \in Hook : WaitForServer(l)
    \/ \E l \in Hook : ReadEvent(l)
    \/ \E l \in Hook : PostEvent(l)
    \/ BrokerUp
    \/ BrokerDown

LauncherSpec == Init /\ [][LauncherNext]_vars

\* every command of a hook run that can run does run
FairLauncherSpec ==
    /\ LauncherSpec
    /\ \A l \in Hook : WF_vars(HookStep(l))

\* the events a hook posts in LinkSpec
LinkBodies == {b \in Bodies : /\ b.json = "object"
                              /\ b.value = [type |-> "stop", message |-> "done",
                                            timestamp |-> "T0"]}

\* One client and the broker it connects to: socket i of the client is
\* connection i of the broker.  The client connects and reconnects on request,
\* the broker accepts, registers and broadcasts, frames and close handshakes
\* travel between the two.
LinkNext ==
    \/ Listen
    \/ ClientStart
    \/ ManualReconnect
    \/ ReconnectTimerFire
    \/ \E c \in Conn \cap Channel : chan[c] = "connecting" /\ TcpAccept(c)
    \/ \E c \in Conn : WsConnection(c)
    \/ \E i \in Conn \cap Channel : connState[i] = "open" /\ ChanOpen(i)
    \/ \E b \in LinkBodies : PostNotify(b, 0)
    \/ \E i \in Conn \cap Channel : Deliver(i)
    \/ \E c \in Conn \cap Channel : chan[c] \in {"closing", "free"} /\ RemoteClose(c)
    \/ \E c \in Conn : connState[c] = "closing" /\ WsClose(c)
    \/ \E i \in Conn \cap Channel : /\ connState[i] \in {"closing", "closed"}
                                     /\ chan[i] = "closing"
                                     /\ ChanClose(i)
    \/ \E h \in Handler : Gate(h)
    \/ \E h \in Handler : Show(h)

LinkSpec == Init /\ [][LinkNext]_vars

\* The start of the background script, on a fresh install or after an earlier
\* run, with the requests of the popup and the events of a channel that arrive
\* while loadState() is waiting for the storage.
RestoreNext ==
    /\ \/ ClientStart
       \/ LoadRead
       \/ LoadResolve
       \/ Activate
       \/ \E i \in Channel : ChanOpen(i)
       \/ \E i \in Channel, f \in {g \in StampedEvents : g.type = "idle_prompt"} :
             Receive(i, f)
       \/ \E h \in Handler : Gate(h)
       \/ \E h \in Handler : Show(h)
       \/ TestNotification
       \/ MarkAsRead
    /\ arrivals' <= MaxGateArrivals
    /\ userActions' <= MaxGateUserActions

RestoreSpec == RestoreInit /\ [][RestoreNext]_vars

\* The counter and the list over a long run: events of one kind from the
\* broker and removals, of the newest entry and with an index out of range,
\* up to MaxArrivals events and MaxUserActions requests.  UnreadSpec has the
\* clears and the acknowledgements, over shorter runs.
CounterNext ==
    \/ ClientStart
    \/ \E i \in Channel : ChanOpen(i)
    \/ \E i \in Channel, f \in {g \in StampedEvents : g.type = "stop"} : Receive(i, f)
    \/ \E h \in Handler : Gate(h)
    \/ \E h \in Handler : Show(h)
    \/ \E x \in {-1, 0, MAX_RECENT_NOTIFICATIONS} : RemoveNotification(x)

CounterSpec == Init /\ [][CounterNext]_vars

\* GateSpec with the popup's two requests that edit the list
UnreadNext ==
    /\ \/ GateNext
       \/ \E x \in -1..MaxGateArrivals :
             x <= Len(recentNotifications) /\ RemoveNotification(x)
       \/ ClearNotifications
    /\ userActions' <= MaxGateUserActions

UnreadSpec == Init /\ [][UnreadNext]_vars

Next ==
    \/ NotifyNext
    \/ BindNext
    \/ LifecycleNext
    \/ ClientNext
    \/ RecentNext
    \/ GateNext

Spec == Init /\ [][Next]_vars

(***************************************************************************)
(* Submission endpoint: claims C1 - C4 (checked under NotifySpec)          *)
(***************************************************************************)
\* the registered connections that are OPEN
OpenClients == {c \in Range(clients) : connState[c] = "open"}

\* a step that handles one POST /notify
PostStep == posts' = posts + 1

LastFrame(q) == q[Len(q)]

\* C1: a POST /notify that is rejected - body not parseable (400 'Invalid JSON
\* payload') or type outside the three valid ones (400 'Invalid notification
\* type') - writes to no listener connection, whatever the connection set is.
C1_RejectedPostBroadcastsNothing ==
    [][PostStep =>
         /\ request'.json = "garbage" => response' = ErrorResponse("Invalid JSON payload")
         /\ (request'.json = "object" /\ request'.value.type \notin VALID_TYPES)
                => response' = ErrorResponse("Invalid notification type")
         /\ (request'.json # "object" \/ request'.value.type \notin VALID_TYPES)
                => (response'.status = 400 /\ sent' = sent)]_vars

\* a rejected submission has been handled while a listener was registered and open
C1_Witness ==
    /\ posts > 0
    /\ request.json = "object" /\ request.value.type = "bogus"
    /\ response = ErrorResponse("Invalid notification type")
    /\ OpenClients # {}

\* C2: for every accepted POST /notify, clientsNotified equals the number of
\* registered connections that were OPEN when the broadcast ran; a registered
\* connection in any other state is not counted and not written to.
C2_ClientsNotifiedCountsOpen ==
    [][(PostStep /\ response'.status = 200) =>
         /\ response'.clientsNotified = Cardinality(OpenClients)
         /\ \A c \in Conn : c \notin OpenClients => sent'[c] = sent[c]
         /\ \A c \in OpenClients : Len(sent'[c]) = Len(sent[c]) + 1]_vars

\* an accepted submission was broadcast while the first registered connection
\* was closing and a later one was open: one client notified out of two
C2_Witness ==
    /\ response.status = 200 /\ response.clientsNotified = 1
    /\ Len(clients) = 2
    /\ connState[clients[1]] = "closing" /\ Len(sent[clients[1]]) = 1
    /\ connState[clients[2]] = "open" /\ Len(sent[clients[2]]) = 2

\* C3: for every accepted submission each connection that is open at broadcast
\* time is sent exactly one frame, the submitted event (same type and message,
\* the timestamp as stamped); all listeners get the identical payload and
\* nothing else is written.
C3_OneIdenticalFramePerOpenConnection ==
    [][(PostStep /\ response'.status = 200) =>
         \E ts \in BodyTimestamps \cup {NowISO} :
            LET event == [type |-> request'.value.type,
                          message |-> request'.value.message,
                          timestamp |-> ts]
            IN /\ ts # Absent
               /\ \A c \in Conn :
                    sent'[c] = IF c \in OpenClients THEN Append(sent[c], event)
                               ELSE sent[c]]_vars

\* two open listeners have received the same event, once each
C3_Witness ==
    /\ response.status = 200 /\ response.clientsNotified = 2
    /\ \A c \in Conn : c \in OpenClients
    /\ \A c \in Conn : /\ Len(sent[c]) = 2
                       /\ sent[c][2].type = "stop"
                       /\ sent[c][2].message = "done"
                       /\ sent[c][2] = sent[1][2]

NoClients == Len(clients) = 0

C6_ArmedTimerImpliesNoClients ==
    /\ [](idleShutdownTimer => NoClients)
    /\ [](pendingTimers = IF idleShutdownTimer THEN 1 ELSE 0)
    /\ [][(shutdownBy = "none" /\ shutdownBy' = "idle") => NoClients]_vars
    /\ [][(idleShutdownTimer /\ ~NoClients') => (~idleShutdownTimer' /\ pendingTimers' = 0)]_vars

\* a connection registered while the timeout was armed; the broker is still
\* serving with no timeout pending
C6_Witness ==
    /\ procState = "listening" /\ ~isShuttingDown
    /\ ~NoClients
    /\ ~idleShutdownTimer /\ pendingTimers = 0

PidRemovalAt == CHOOSE i \in 1..Len(effects) : effects[i].op = "cleanupPidFile"

\* C8 as claimed: the PID file is removed only after every open connection has
\* been asked to close.
C8_Original ==
    isShuttingDown =>
        \A i \in 1..Len(effects) : effects[i].op = "close" => i < PidRemovalAt

\* C8 amended: graceful shutdown marks shutting-down, removes the PID file, then
\* asks every registered connection to close with code 1000 (an open one becomes
\* closing), then closes the accept channel, and terminates once the server has
\* closed; the PID file is removed before any connection is asked to close.
C8_ShutdownOrder ==
    /\ [](isShuttingDown =>
            /\ Len(effects) >= 2
            /\ effects[1].op = "cleanupPidFile"
            /\ effects[Len(effects)].op = "httpServer.close"
            /\ \A i \in 2..(Len(effects) - 1) : effects[i].op = "close"
            /\ pidFile = "absent"
            /\ procState \in {"closing", "exited"})
    /\ [](procState = "exited" => isShuttingDown)
    /\ [][(~isShuttingDown /\ isShuttingDown') =>
            /\ \A c \in Range(clients) :
                  /\ \E i \in 2..(Len(effects') - 1) : effects'[i].conn = c
                  /\ connState[c] = "open" =>
                        (connState'[c] = "closing" /\ closeCode'[c] = NORMAL_CLOSURE)
            /\ Len(effects') = Len(clients) + 2
            /\ procState' = "closing"]_vars

\* a shutdown has closed two open connections with code 1000
C8_Witness ==
    /\ isShuttingDown
    /\ Len(effects) = 4
    /\ \A c \in Conn : closeCode[c] = NORMAL_CLOSURE

ScheduleStep == schedules' = schedules + 1

\* a step that runs ws.onopen
OpenStep == \E i \in Channel : chan[i] = "connecting" /\ chan'[i] = "open"

\* C10: reconnect backoff.  The k-th consecutive reconnect scheduling since the
\* last reset (k = 0, 1, 2, ...) arms its timer with min(floor * 2^k, ceiling),
\* floor 1000 ms and ceiling 30000 ms; every successful open resets the delay to
\* the floor; and the delay always lies between the floor and the ceiling.
C10_BackoffDelay ==
    /\ [](/\ RECONNECT_INITIAL_DELAY <= reconnectDelay
          /\ reconnectDelay <= RECONNECT_MAX_DELAY)
    /\ [][ScheduleStep =>
            /\ reconnectTimeout' = "pending"
            /\ timerDelay' = Min(RECONNECT_INITIAL_DELAY * 2^schedules,
                                 RECONNECT_MAX_DELAY)]_vars
    /\ [][OpenStep => reconnectDelay' = RECONNECT_INITIAL_DELAY]_vars

\* the sixth consecutive scheduling (k = 5) armed its timer with the ceiling,
\* not with 32000
C10_Witness ==
    /\ schedules = 6
    /\ reconnectTimeout = "pending"
    /\ timerDelay = RECONNECT_MAX_DELAY
    /\ reconnectDelay = RECONNECT_MAX_DELAY

(***************************************************************************)
(* Client reconnection: claims C11, C12                                    *)
(***************************************************************************)
\* the current channel is in one of the given readyStates
CurrentIn(S) == ws # 0 /\ chan[ws] \in S

\* a connection attempt is ended before it opens (the handshake fails, or the
\* attempt is abandoned by a manual reconnect)
AttemptEnds == \E i \in Channel : chan[i] = "connecting" /\ chan'[i] \notin {"connecting", "open"}

\* C11 as claimed: after the first connect the client always has a channel
\* connecting or open, or a reconnect timer pending.
C11_Original ==
    ws # 0 => \/ \E i \in Channel : chan[i] \in {"connecting", "open"}
              \/ reconnectTimeout = "pending"

\* C11 amended: after the first connect the current channel is connecting, open
\* or closing (its close event is still to come), or a reconnect timer is
\* pending; every close event arms the reconnect timer and a closed current
\* channel is eventually replaced by a new attempt; and unless connection
\* attempts keep being ended before they open, the client is connected again.
C11_AlwaysRetries ==
    /\ [](ws # 0 => \/ CurrentIn({"connecting", "open", "closing"})
                    \/ reconnectTimeout = "pending")
    /\ [][(\E i \in Channel : chan[i] # "free" /\ chan[i] # "closed"
                                 /\ chan'[i] \in {"closed", "free"})
            => reconnectTimeout' = "pending"]_vars
    /\ CurrentIn({"closed"}) ~> CurrentIn({"connecting", "open"})
    /\ ([]<><<AttemptEnds>>_vars) \/ ([]<>CurrentIn({"open"}))

\* after three failed attempts the fourth one opened: the client is connected
\* and the last timer, armed with 4000 ms, has fired
C11_Witness ==
    /\ CurrentIn({"open"}) /\ isConnected
    /\ timerDelay = 4 * RECONNECT_INITIAL_DELAY
    /\ reconnectTimeout = "fired"

\* C12: a manual reconnect request, whatever the state of the current channel,
\* resets reconnectDelay to the floor, closes the current channel if it is
\* connecting or open, and makes a fresh channel in the connecting state the
\* current one.
C12_ManualReconnectStartsFresh ==
    [][ManualReconnect =>
         /\ reconnectDelay' = RECONNECT_INITIAL_DELAY
         /\ CurrentIn({"connecting", "open"}) => chan'[ws] = "closing"
         /\ ws' # 0 /\ chan'[ws'] = "connecting"
         /\ chan[ws'] \in {"free", "closed"}
         /\ \A i \in Channel \ {ws'} : chan'[i] # "connecting" /\ chan'[i] # "open"]_vars

\* a manual reconnect was handled while an attempt was pending after two
\* failures: that channel is closing, a fresh one is connecting, the delay is
\* back at the floor without any open
C12_Witness ==
    /\ CurrentIn({"connecting"})
    /\ \E j \in Channel \ {ws} : chan[j] = "closing"
    /\ schedules = 0 /\ ~isConnected
    /\ timerDelay = 2 * RECONNECT_INITIAL_DELAY
    /\ reconnectDelay = RECONNECT_INITIAL_DELAY

(***************************************************************************)
(* Recent notifications: claim C13 (checked under RecentSpec)              *)
(***************************************************************************)
\* a step that records an event (addRecentNotification ran past its filter)
RecordStep == arrivals' = arrivals + 1

\* C13: recentNotifications never holds more than 10 entries, whatever events,
\* test notifications, removals and clears have been handled; it is ordered
\* most-recent-first; and an arriving event is put in front, with exactly the
\* oldest entry dropped when 10 entries are present and the order of the others
\* preserved.
C13_RecentListBounded ==
    /\ [](Len(recentNotifications) <= MAX_RECENT_NOTIFICATIONS)
    /\ [](\A i \in 1..(Len(recentNotifications) - 1) :
             recentNotifications[i].receivedAt > recentNotifications[i + 1].receivedAt)
    /\ [][RecordStep =>
            LET kept == IF Len(recentNotifications) = MAX_RECENT_NOTIFICATIONS
                        THEN MAX_RECENT_NOTIFICATIONS - 1
                        ELSE Len(recentNotifications)
            IN /\ recentNotifications'[1].receivedAt = arrivals + 1
               /\ recentNotifications' =
                     <<recentNotifications'[1]>> \o SubSeq(recentNotifications, 1, kept)]_vars

\* the eleventh event arrived with ten entries present: the first event is gone,
\* the second is now the oldest
C13_Witness ==
    /\ arrivals = 11
    /\ Len(recentNotifications) = MAX_RECENT_NOTIFICATIONS
    /\ recentNotifications[1].receivedAt = 11
    /\ recentNotifications[MAX_RECENT_NOTIFICATIONS].receivedAt = 2

(***************************************************************************)
(* Notification gate: claims C14 - C17 (checked under GateSpec)            *)
(***************************************************************************)
\* a step that hands a notification to the OS
RenderStep == Len(rendered') = Len(rendered) + 1
LastRendered == rendered'[Len(rendered')]

HandlersIdle == \A h \in Handler : handlers[h].pc = "free"

\* C14: a welcome ('connected') or 'pong' message received by the client changes
\* neither recentNotifications nor unreadCount and starts no rendering; every
\* entry of recentNotifications and every rendered notification has a type in
\* {permission_prompt, idle_prompt, stop}.
C14_HousekeepingIgnored ==
    /\ [][(\E i \in Channel, f \in {WelcomeMessage, PongMessage} : Receive(i, f)) =>
            UNCHANGED <<recentNotifications, unreadCount, lastNotificationType, badge,
                        stored, handlers, rendered, arrivals>>]_vars
    /\ [](\A i \in 1..Len(recentNotifications) :
             recentNotifications[i].type \in VALID_TYPES)
    /\ [](\A i \in 1..Len(rendered) : rendered[i].type \in VALID_TYPES)
    /\ [](\A h \in Handler : handlers[h].pc # "free" => handlers[h].data.type \in VALID_TYPES)

\* a pong was handled after a stop event had been recorded and rendered: the
\* list, the counter and the rendered notifications are as the event left them
C14_Witness ==
    /\ lastMessage = "pong"
    /\ Len(recentNotifications) = 1 /\ recentNotifications[1].type = "stop"
    /\ unreadCount = 1
    /\ Len(rendered) = 1 /\ rendered[1].type = "stop"
    /\ HandlersIdle

C16_NoRenderingWhileDisabled ==
    /\ [][RenderStep => settings.notificationsEnabled]_vars
    /\ [][\A i \in Channel, f \in StampedEvents : Receive(i, f) => RecordStep]_vars

\* the test notification was rendered although the toggle had been switched off
\* before the request and was off throughout
C16_Witness ==
    /\ userActions = 2
    /\ ~settings.notificationsEnabled
    /\ arrivals = 1 /\ lastMessage = "none"
    /\ Len(rendered) = 1
    /\ rendered[1].message = TestData.message

\* C17: an acknowledgement (markAsRead request, or a click on a notification)
\* sets unreadCount to 0 and leaves recentNotifications as it is.
C17_AcknowledgementKeepsList ==
    [][(MarkAsRead \/ NotificationClick) =>
         /\ unreadCount' = 0
         /\ recentNotifications' = recentNotifications]_vars

\* two events were recorded and then acknowledged: the counter is 0, both
\* entries are still listed
C17_Witness ==
    /\ userActions = 1
    /\ unreadCount = 0
    /\ stored.unreadCount = 0
    /\ Len(recentNotifications) = 2
    /\ settings = DEFAULT_SETTINGS

HealthStep == request' = HealthRequest /\ (request # HealthRequest \/ response' # response)

C19_HttpLeavesBookkeepingAlone ==
    /\ [][HealthStep =>
            /\ response'.status = 200
            /\ response'.connectedClients = Len(clients)
            /\ UNCHANGED <<procState, clients, connState, sent, closeCode,
                           idleShutdownTimer, pendingTimers, isShuttingDown, pidFile,
                           effects, posts>>]_vars
    /\ [][PostStep =>
            UNCHANGED <<clients, connState, closeCode, idleShutdownTimer,
                        pendingTimers>>]_vars

\* a POST was rejected and a later GET /health was answered while nobody is
\* connected and the idle timeout is armed
C19_Witness ==
    /\ posts = 1
    /\ request = HealthRequest
    /\ response = HealthResponse(0)
    /\ clients = <<>>
    /\ idleShutdownTimer

(***************************************************************************)
(* C20: during a broadcast, a write failure on one listener connection     *)
(* does not abort the remaining iterations: every other open connection in *)
(* the set is still written to, the failing connection stays in the set,   *)
(* and the submitter receives the 200 response, not a 400.                 *)
(***************************************************************************)
\* a POST during whose broadcast a send() threw
WriteFailStep == PostStep /\ sendFailed' # 0

Welcomes(c) == Len(SelectSeq(sent[c], LAMBDA f : f.type = "connected"))

C21_WelcomeOnRegistration ==
    /\ [][\A c \in Conn :
            connState[c] = "accepted" /\ connState'[c] = "open" =>
                /\ c \in Range(clients')
                /\ sent[c] = <<>>
                /\ sent'[c] = <<WelcomeMessage>>
                /\ \A d \in Conn \ {c} : sent'[d] = sent[d]]_vars
    /\ [](\A c \in Conn :
            /\ c \in Range(clients) => sent[c] # <<>>
            /\ sent[c] # <<>> => sent[c][1] = WelcomeMessage /\ Welcomes(c) = 1)

\* the first listener received a broadcast before the second one registered:
\* each has one welcome, at the head of what it was sent
C21_Witness ==
    /\ clients = <<1, 2>>
    /\ Len(sent[1]) = 2 /\ sent[1][1] = WelcomeMessage /\ sent[1][2].type = "stop"
    /\ sent[2] = <<WelcomeMessage>>
    /\ connState[1] = "open" /\ connState[2] = "open"

(***************************************************************************)
(* C22: a keepalive ping from a listener produces exactly one pong, written *)
(* to the sending connection only; it changes neither the connection set   *)
(* nor the idle timer and triggers no broadcast.  Any other message, and   *)
(* any message that is not JSON, is ignored: no reply, no state change.    *)
(***************************************************************************)
\* the broker's state apart from the frames it has written
AllButSent == <<procState, clients, connState, closeCode, idleShutdownTimer,
                pendingTimers, isShuttingDown, pidFile, effects, request, response,
                posts, shutdownBy, retriggered>>

C22_PingAnsweredByOnePong ==
    /\ [][\A c \in Conn, f \in ClientFrames :
            WsMessage(c, f) =>
                /\ UNCHANGED AllButSent
                /\ f = "ping" => sent' = [sent EXCEPT ![c] = Append(@, PongMessage)]
                /\ f # "ping" => sent' = sent]_vars
    \* every step that writes a pong writes one frame, to one open connection
    /\ [][\A c \in Conn :
            Len(sent'[c]) > Len(sent[c]) /\ sent'[c][Len(sent'[c])].type = "pong" =>
                /\ connState[c] = "open"
                /\ sent' = [sent EXCEPT ![c] = Append(@, PongMessage)]
                /\ UNCHANGED AllButSent]_vars

\* two listeners are registered, the first has pinged: it alone has a pong
C22_Witness ==
    /\ clients = <<1, 2>>
    /\ sent[1] = <<WelcomeMessage, PongMessage>>
    /\ sent[2] = <<WelcomeMessage>>
    /\ connState[2] = "open"
    /\ ~idleShutdownTimer

(***************************************************************************)
(* C23: unregistration is idempotent.  When the error handler and the      *)
(* close handler both run for the same connection, the second removal is a *)
(* no-op: the connection set and the idle timer (handle and pending        *)
(* timeouts) after the second event equal those after the first one.       *)
(***************************************************************************)
C23_UnregisterIdempotent ==
    /\ [][\A c \in Conn :
            c \notin Range(clients) /\ (WsClose(c) \/ WsError(c)) =>
                UNCHANGED <<clients, idleShutdownTimer, pendingTimers>>]_vars
    \* the close event of a connection whose error handler has run
    /\ [][\A c \in errored :
            connState[c] = "closing" /\ connState'[c] = "closed" =>
                UNCHANGED <<clients, idleShutdownTimer, pendingTimers>>]_vars

\* the only listener failed and its close event followed: the set is empty and
\* one idle timeout is pending
C23_Witness ==
    /\ errored = {1}
    /\ connState[1] = "closed"
    /\ connState[2] = "none"
    /\ clients = <<>>
    /\ idleShutdownTimer /\ pendingTimers = 1
    /\ ~isShuttingDown

(***************************************************************************)
(* C24: a transport error or a close on one listener connection            *)
(* unregisters that connection only.  Every other registered connection    *)
(* stays registered, untouched, and keeps receiving later broadcasts, and  *)
(* later POST /notify submissions are answered as usual (200 with the      *)
(* number of open listeners, or 400 for a bad body).                       *)
(***************************************************************************)
\* the body of the request is a notification the endpoint accepts
Acceptable(body) == body.json = "object" /\ body.value.type \in VALID_TYPES

C24_FailureIsolated ==
    /\ [][\A c \in Range(clients) :
            c \notin Range(clients') =>
                /\ Range(clients') = Range(clients) \ {c}
                /\ \A d \in Conn \ {c} :
                       /\ connState'[d] = connState[d]
                       /\ closeCode'[d] = closeCode[d]
                /\ UNCHANGED <<sent, request, response, posts, procState,
                               isShuttingDown>>]_vars
    /\ [][PostStep /\ sendFailed' = 0 =>
            IF Acceptable(request')
            THEN /\ response'.status = 200
                 /\ response'.clientsNotified =
                        Cardinality({d \in Range(clients) : connState[d] = "open"})
                 /\ \A d \in Range(clients) :
                        connState[d] = "open" =>
                            /\ Len(sent'[d]) = Len(sent[d]) + 1
                            /\ sent'[d][Len(sent'[d])].type = request'.value.type
            ELSE response'.status = 400 /\ sent' = sent]_vars

\* the first listener failed and was unregistered; the second is still
\* registered and a submission was answered 200 and delivered to it
C24_Witness ==
    /\ errored = {1}
    /\ clients = <<2>>
    /\ connState[2] = "open"
    /\ sent[1] = <<WelcomeMessage>>
    /\ Len(sent[2]) = 2 /\ sent[2][2].type = "idle_prompt"
    /\ response = NotifyResponse(1)

(***************************************************************************)
(* C25: the firing of the idle timeout and the registration of a           *)
(* connection are atomic with respect to each other.  A connection that    *)
(* arrives as the timeout fires is either registered, with the pending     *)
(* shutdown cancelled, or shutdown has already begun and the connection is *)
(* closed by it: no timeout is left pending beside a registered            *)
(* connection, and no connection is ever registered and open on a broker   *)
(* that has begun shutting down.                                           *)
(***************************************************************************)
C25_RegistrationVersusIdleTimer ==
    /\ [](clients # <<>> => ~idleShutdownTimer /\ pendingTimers = 0)
    /\ [](isShuttingDown => \A c \in Range(clients) : connState[c] # "open")

\* the idle timeout fired while a connection was accepted but not yet
\* upgraded: shutdown began with an empty set, then the handshake completed
C25_Witness ==
    /\ isShuttingDown
    /\ shutdownBy = "idle"
    /\ procState = "closing"
    /\ clients = <<1>>
    /\ connState[1] = "open"
    /\ sent[1] = <<WelcomeMessage>>
    /\ closeCode[1] = 0

(***************************************************************************)
(* C26: a startup bind failure is fatal and harmless to the running        *)
(* instance.  A broker that cannot bind its port because another broker    *)
(* holds it exits at once: it never listens, registers no connection, arms *)
(* no timer, and neither writes, overwrites nor removes the PID file of    *)
(* the running broker.                                                     *)
(***************************************************************************)
C26_BindFailureIsHarmless ==
    /\ [](portHolder = "other" =>
            /\ pidFile = "other"
            /\ procState \in {"starting", "crashed"}
            /\ clients = <<>>
            /\ \A c \in Conn : connState[c] = "none" /\ sent[c] = <<>>
            /\ ~idleShutdownTimer /\ pendingTimers = 0
            /\ ~isShuttingDown /\ effects = <<>>)
    /\ [][portHolder = "other" /\ procState = "starting" => procState' = "crashed"]_vars
    /\ [][procState = "crashed" => procState' = "crashed"]_vars

\* the second broker has died on its bind failure; the PID file of the running
\* broker is in place
C26_Witness ==
    /\ portHolder = "other"
    /\ procState = "crashed"
    /\ pidFile = "other"

(***************************************************************************)
(* C27: the client maintains a single outbound channel.  In every          *)
(* reachable state at most one of its WebSocket objects is CONNECTING or   *)
(* OPEN, and that one is the current one; connect() called from the        *)
(* activate event or from the reconnect timeout while the current channel  *)
(* is CONNECTING or OPEN creates nothing, and a manual reconnect leaves    *)
(* exactly one such channel, having closed the one before.                 *)
(***************************************************************************)
\* the WebSocket objects that are CONNECTING or OPEN
Live == {i \in Channel : chan[i] \in {"connecting", "open"}}

C27_SingleChannel ==
    /\ [](Cardinality(Live) <= 1 /\ Live \subseteq {ws})
    /\ [][(Activate \/ ReconnectTimerFire) /\ Live # {} => ws' = ws /\ chan' = chan]_vars
    /\ [][ManualReconnect =>
            /\ Live \subseteq {ws}
            /\ \A i \in Live : chan'[i] = "closing"
            /\ Cardinality({i \in Channel : chan'[i] \in {"connecting", "open"}}) = 1]_vars

\* a manual reconnect replaced an open channel; the close event of the old one
\* armed the reconnect timeout, which fired while the new channel was open and
\* created nothing
C27_Witness ==
    /\ ws # 0 /\ chan[ws] = "open"
    /\ ~isConnected
    /\ reconnectTimeout = "fired"
    /\ \A i \in Channel \ {ws} : chan[i] = "free"

(***************************************************************************)
(* C28: keepalive tracks the connected state, under every interleaving of  *)
(* open, close, error and manual-reconnect events.  Stated here is its     *)
(* first part: whenever the client's current channel is open, a keepalive  *)
(* timer is active.                                                        *)
(***************************************************************************)
C28_KeepaliveTracksConnection == [](CurrentIn({"open"}) => keepaliveInterval)

\* the part of C28 about pings: a keepalive tick sends a ping only on a channel
\* that is open, and a timer is active only while some channel is open or closing
C28_PingsOnlyWhenOpen ==
    /\ [][pinged' # 0 /\ pinged' # pinged => chan[pinged'] = "open"]_vars
    /\ [](keepaliveInterval => \E i \in Channel : chan[i] \in {"open", "closing"})

\* the new channel of a manual reconnect opened before the close event of the
\* old one was dispatched: that event stopped the keepalive of the new channel
C28_Witness ==
    /\ CurrentIn({"open"})
    /\ ~keepaliveInterval
    /\ ~isConnected
    /\ reconnectTimeout = "pending"

(***************************************************************************)
(* C29: unreadCount is incremented for an incoming event only if the event *)
(* passes the gate.  An event whose kind is individually disabled, or that *)
(* arrives while the global toggle is off, is recorded in                  *)
(* recentNotifications but leaves unreadCount and the badge unchanged.     *)
(***************************************************************************)
\* the gate stops an event of this kind under settings s (steps 3 and 4)
Stopped(data, s) == ~s.notificationsEnabled \/ Suppressed(data, s)

C29_UnreadCountsPassingEventsOnly ==
    [][\A i \in Channel, data \in StampedEvents :
        Receive(i, data) /\ Stopped(data, settings) =>
            /\ Len(recentNotifications') = Len(recentNotifications) + 1
            /\ recentNotifications'[1].type = data.type
            /\ unreadCount' = unreadCount
            /\ badge' = badge]_vars

\* 'stop' notifications are switched off and one 'stop' event has been handled
\* to the end: it is recorded, nothing was rendered, and it counts as unread
C29_Witness ==
    /\ ~settings.notifyOnStop
    /\ arrivals = 1
    /\ Len(recentNotifications) = 1 /\ recentNotifications[1].type = "stop"
    /\ HandlersIdle
    /\ rendered = <<>>
    /\ unreadCount = 1
    /\ badge.text = "1"

AckStep ==
    /\ userActions' = userActions + 1
    /\ unreadCount' = 0
    /\ recentNotifications' = recentNotifications
    /\ arrivals' = arrivals

C31_BadgeAfterAcknowledgement ==
    [][AckStep =>
        IF isConnected
        THEN badge' = [text |-> "", color |-> BADGE_COLORS.connected]
        ELSE badge' \in {[text |-> "!", color |-> BADGE_COLORS.disconnected],
                         [text |-> "X", color |-> BADGE_COLORS.error]}]_vars

\* the channel was lost after an event had been recorded, then the user
\* acknowledged: the client is disconnected and the badge is the 'connected' one
C31_Witness ==
    /\ ~isConnected
    /\ reconnectTimeout = "pending"
    /\ arrivals = 1
    /\ unreadCount = 0
    /\ Len(recentNotifications) = 1
    /\ badge = [text |-> "", color |-> BADGE_COLORS.connected]

(***************************************************************************)
(* C32: every rendered idle_prompt or stop notification is eventually      *)
(* cleared by its auto-close timeout, and a rendered permission_prompt     *)
(* notification is never cleared by a timeout: it leaves the display only  *)
(* when the user clicks it.                                                *)
(***************************************************************************)
TimedKinds == {t \in DOMAIN NOTIFICATION_CONFIG : ~NOTIFICATION_CONFIG[t].requireInteraction}

\* the idle_prompt and stop notifications leave the display
C32_TimedKindsExpire ==
    \A id \in Clock : (shown[id] \in TimedKinds) ~> (shown[id] \notin TimedKinds)

\* a permission_prompt notification is cleared by a click only
C32_PermissionStaysUntilClick ==
    [][\A id \in Clock :
          shown[id] = "permission_prompt" /\ shown'[id] = "none"
             => userActions' = userActions + 1]_vars

\* a permission_prompt notification on display under the id of a notification
\* whose auto-close timeout is pending and due
C32_Witness ==
    \E id \in Clock : /\ shown[id] = "permission_prompt"
                      /\ id \in dismissTimers
                      /\ now > id

(***************************************************************************)
(* C33: a failing settings store never blocks delivery.  When the read of  *)
(* the settings fails, the gate decides with the defaults (global toggle   *)
(* on, idle and stop enabled), so the event is shown; a failing write of   *)
(* the state prevents neither the recording nor the rendering; and every   *)
(* handler runs to its end.                                                *)
(***************************************************************************)
C33_StoreFailureNeverBlocks ==
    [][/\ \A h \in Handler :
             storageDown /\ handlers[h].pc = "gate" /\ handlers'[h].pc # "gate"
                => handlers'[h].pc = ShowStart(handlers[h].data)
       /\ \A h \in Handler :
             storageDown /\ handlers[h].pc = "show" /\ handlers'[h].pc # "show"
                => /\ handlers'[h].pc = "free"
                   /\ rendered' = Append(rendered, OsNotification(handlers[h].data))
       /\ storageDown /\ arrivals' = arrivals + 1
             => /\ Len(recentNotifications') > 0
                /\ recentNotifications'[1].type = lastNotificationType'
                /\ unreadCount' = unreadCount + 1
                /\ stored' = stored]_vars

\* an event was recorded and rendered although no state was ever written, the
\* stored settings have the global toggle off and the store is failing
C33_Witness ==
    /\ storageDown
    /\ ~stored.present
    /\ ~settings.notificationsEnabled
    /\ Len(recentNotifications) = 1
    /\ unreadCount = 1
    /\ Len(rendered) = 1

(***************************************************************************)
(* C34: launcher mutual exclusion.  At most one launcher at a time is      *)
(* between acquiring and releasing the lock (re-check health, remove the   *)
(* stale PID file, start the broker, wait for health), and a launcher that *)
(* finds the broker healthy, before or after taking the lock, starts no    *)
(* process.                                                                *)
(***************************************************************************)
InLaunchSequence(l) == hookPc[l] \in {"recheck", "stale", "start", "wait"}

OneInLaunchSequence ==
    /\ \A l, m \in Hook : InLaunchSequence(l) /\ InLaunchSequence(m) => l = m
    /\ \A l \in Hook : InLaunchSequence(l) => lockDir = l

\* a launcher that sees the broker healthy at line 19 or line 59 exits with
\* status 0 and has started nothing
HealthyStartsNothing ==
    [][\A l \in Hook :
          healthy /\ hookPc[l] \in {"check", "recheck"} /\ hookPc'[l] # hookPc[l]
             => /\ launcherStatus'[l] = 0
                /\ ~spawned'[l]
                /\ spawned' = spawned]_vars

C34_LauncherMutualExclusion == []OneInLaunchSequence /\ HealthyStartsNothing

\* one launcher waits for the broker it started while the other one is in the
\* loop of acquire_lock and has found the directory in place
C34_Witness ==
    \E l, m \in Hook : /\ hookPc[l] = "wait"
                       /\ spawned[l]
                       /\ hookPc[m] = "acquire"
                       /\ waited[m] > 0

(***************************************************************************)
(* C35: the hook never blocks its caller.  Every run of notify.sh ends,    *)
(* and with exit status 0, whether the lock could not be acquired, the     *)
(* broker did not start or did not become healthy in time, or the POST     *)
(* failed; the loops that wait for the lock and for the health are         *)
(* bounded.                                                                *)
(***************************************************************************)
C35_HookAlwaysExitsZero ==
    /\ \A l \in Hook : <>(hookPc[l] = "exit")
    /\ [](\A l \in Hook : hookPc[l] = "exit" => hookStatus[l] = 0)
    /\ [](\A l \in Hook : /\ waited[l] <= LOCK_TIMEOUT
                           /\ hookPc[l] = "wait" => waited[l] < MAX_WAIT)

\* a run that gave up on the lock, whose launcher failed with the broker down,
\* has ended with status 0
C35_Witness ==
    \E l \in Hook : /\ hookPc[l] = "exit"
                    /\ waited[l] = LOCK_TIMEOUT
                    /\ launcherStatus[l] = 1
                    /\ hookStatus[l] = 0
                    /\ ~healthy

(***************************************************************************)
(* C36: the connection status is consistent with the channel under every   *)
(* interleaving.  Whenever the client's current channel is open and its    *)
(* open handler has run, isConnected is true (it is what getStatus         *)
(* returns); the late close event of a channel that a manual reconnect     *)
(* replaced never marks the client disconnected while the new channel is   *)
(* open.                                                                   *)
(***************************************************************************)
C36_StatusConsistentWithChannel == [](CurrentIn({"open"}) => isConnected)

\* the current channel is open, its open handler has run and saved the state,
\* and the close event of the replaced channel has since saved isConnected
\* false
C36_Witness ==
    /\ CurrentIn({"open"})
    /\ ~isConnected
    /\ stored.present
    /\ ~stored.isConnected
    /\ \A i \in Channel : chan[i] \in {"open", "free"}

(***************************************************************************)
(* C37: graceful shutdown terminates.  Once shutdown has begun, by signal  *)
(* or by the idle timeout, the broker process eventually exits, provided   *)
(* that the transport of every connection that is closing completes its    *)
(* close; a connection registered after shutdown began does not keep the   *)
(* process alive.                                                          *)
(***************************************************************************)
C37_ShutdownTerminates == isShuttingDown ~> procState = "exited"

\* shutdown has begun and has closed what was registered; the only connection
\* left was registered afterwards, is open and was never asked to close
C37_Witness ==
    /\ procState = "closing"
    /\ \E c \in Conn : /\ connState[c] = "open"
                       /\ closeCode[c] = 0
                       /\ c \in Range(clients)
                       /\ \A d \in Conn \ {c} : connState[d] = "closed"

(***************************************************************************)
(* C38: each accepted submission is recorded at most once per client       *)
(* session.  For one broadcast event the client appends at most one entry  *)
(* to recentNotifications and increments unreadCount at most once, even    *)
(* while a manual reconnect leaves an old, closing channel and a new one    *)
(* from the same client registered at the broker at the same time.         *)
(***************************************************************************)
C38_RecordedAtMostOnce ==
    /\ Len(recentNotifications) <= posts
    /\ unreadCount <= posts

\* the broker broadcast one event to both connections of the client, both
\* frames have arrived, and the client has recorded the event once
C38_Witness ==
    /\ posts = 1
    /\ \A c \in {1, 2} : /\ Len(sent[c]) = 2
                         /\ sent[c][2].type = "stop"
                         /\ delivered[c] = 2
    /\ Len(recentNotifications) = 1
    /\ unreadCount = 1

(***************************************************************************)
(* C39: startup restore does not lose session data.  loadState never       *)
(* overwrites or discards the notifications and the unread count that      *)
(* handlers recorded before the restore completed, and after loadState has *)
(* completed recentNotifications contains every event recorded in this     *)
(* run.                                                                    *)
(***************************************************************************)
\* the entries recorded in this run: receivedAt counts the arrivals of the run
RecordedInThisRun(list) == {list[j].receivedAt : j \in DOMAIN list} \ {0}

C39_RestoreKeepsSessionData ==
    /\ [][clientPc = "loading" /\ clientPc' = "running"
            => /\ RecordedInThisRun(recentNotifications)
                     \subseteq RecordedInThisRun(recentNotifications')
               /\ arrivals > 0 => unreadCount' >= unreadCount]_vars
    /\ [](clientPc = "running" => RecordedInThisRun(recentNotifications) = 1..arrivals)

\* loadState has completed with the list of the earlier run: the test
\* notification recorded while it was waiting is in storage and not in the list
C39_Witness ==
    /\ clientPc = "running"
    /\ arrivals = 1
    /\ recentNotifications = StoredEarlier.recentNotifications
    /\ Len(stored.recentNotifications) = 1
    /\ stored.recentNotifications[1].receivedAt = 1

(***************************************************************************)
(* C40: the unread counter and the recent list stay consistent.  After any *)
(* sequence of incoming events, removeNotification, clearNotifications and *)
(* acknowledgements, unreadCount is 0 whenever recentNotifications is      *)
(* empty; a removeNotification with an index out of range changes neither  *)
(* the list nor the counter.                                               *)
(***************************************************************************)
C40_NoUnreadWithoutEntries == recentNotifications = <<>> => unreadCount = 0

\* the second part of C40: a removeNotification with an index out of range
\* changes neither the list nor the counter
C40_OutOfRangeRemovalChangesNothing ==
    [][\A x \in -1..MAX_RECENT_NOTIFICATIONS :
          (x < 0 \/ x >= Len(recentNotifications)) /\ RemoveNotification(x)
             => UNCHANGED <<recentNotifications, unreadCount>>]_vars

\* more events than the list holds arrived unread, then every entry of the
\* list was removed one by one: the list is empty and one event counts as unread
C40_Witness ==
    /\ recentNotifications = <<>>
    /\ unreadCount = 1
    /\ arrivals = MAX_RECENT_NOTIFICATIONS + 1
    /\ userActions = MAX_RECENT_NOTIFICATIONS

====
